---- MODULE Spec2Model ----
(***************************************************************************)
(* A model of the kivy-warmup Hue controller.                              *)
(*                                                                         *)
(*   src/myapp/hue.py  the bridge client: unit conversions and the PUT/GET *)
(*                     requests of every operation                         *)
(*   src/myapp/app.py  MainScreen (the rooms list) and RoomLightsScreen    *)
(*                     (the lights of one room)                            *)
(*   src/myapp/ui.py   HueTile: toggle, slider debounce, colour commit     *)
(*   src/main.py       the earlier single-screen MainScreen (item grid)    *)
(*                                                                         *)
(* The UI runs on Kivy's single event-loop thread.  Every network operation*)
(* runs in a daemon thread of its own and hands its result back with       *)
(* Clock.schedule_once; the callbacks scheduled that way run on the event  *)
(* loop in the order they were scheduled (the variable clock).  A worker   *)
(* thread and the event loop interleave at every step.                     *)
(*                                                                         *)
(* The components do not share state, so each has a specification of its   *)
(* own over the same variables: SpecClient, SpecRooms, SpecLights,         *)
(* SpecGrid, SpecTile and SpecSettings for the application, SpecConfig,    *)
(* SpecParse, SpecDiscover, SpecSweep, SpecList and SpecRoomList for the   *)
(* rest of the bridge client.  SpecFetches runs the rooms list of myapp or *)
(* the grid of src/main.py; SpecTileBridge follows the on-state the bridge *)
(* holds while the commands of a tile succeed; SpecSliderLive and          *)
(* SpecGridLive add the fairness of the clock and of the worker threads.   *)
(* A callback that raises stops the event loop (the variable stopped).     *)
(***************************************************************************)
EXTENDS Integers, Sequences, FiniteSets, TLC

VARIABLES
    \* ---- src/myapp/hue.py: one call of the bridge client ----
    call,           \* the operation and its arguments
    client_pc,      \* "ready" before the call, "done" after it returned
    requests,       \* the HTTP requests the call issued, in order
    \* ---- Kivy Clock and event loop ----
    clock,          \* callbacks handed over with Clock.schedule_once(cb), FIFO
    stopped,        \* a callback raised: the event loop re-raised and the app ended
    \* ---- src/myapp/app.py MainScreen ----
    gen_rooms,      \* _gen_rooms
    loading_rooms,  \* loading_rooms
    rooms,          \* rooms: the token of the fetch whose data it holds, 0 = []
    status_lbl,     \* ids.status_lbl.text: "" or the text of an error
    msg_timers,     \* pending clear_message timers of show_message
    rooms_worker,   \* token -> position of that fetch's thread
    rooms_result,   \* token -> "none" | "ok" | "fail" (list_rooms_detailed)
    rooms_netOrder, \* history: tokens in the order their network call ended
    rooms_assigned, \* history: tokens whose data was assigned to rooms
    \* ---- src/myapp/app.py HueApp / RoomLightsScreen ----
    current,        \* ScreenManager.current
    room_id,        \* room_id
    room_name,      \* room_name: the room whose name it holds, 0 = ""
    loading,        \* loading
    lights,         \* lights: the room the list was fetched for, by which fetch
    lights_status,  \* ids.status_lbl.text of the room screen
    n_lights,       \* number of lights fetches started so far
    lights_worker,  \* fetch -> position of its thread and the room_id it read
    lights_result,  \* fetch -> "none" | "ok" | the text of the exception
    lights_regressed, \* history: an older fetch's data replaced a newer one's
    \* ---- src/main.py MainScreen ----
    inited,         \* _inited
    view,           \* view
    gen,            \* _gen
    loading_lights, \* loading_lights
    item_grid,      \* ids.item_grid: what it shows ("rooms" or "lights"), of which fetch
    popups,         \* number of "Hue Error" popups opened
    grid_worker,    \* token -> position of the fetch thread started for it, and its kind
    grid_result,    \* token -> "none" | "ok" | the text of the exception
    grid_dropped,   \* history: tokens whose assign() returned without touching the grid
    \* ---- src/myapp/ui.py HueTile (LightTile or RoomTile) ----
    item_kind,      \* "light" for a LightTile, "room" for a RoomTile
    is_on,          \* is_on
    brightness,     \* brightness
    supports_color, \* supports_color
    bri_job,        \* _bri_job: the Clock event it refers to, 0 = None
    timers,         \* the 0.35 s Clock events that are scheduled and not cancelled
    n_timers,       \* number of Clock events on_slider_change created so far
    cmds,           \* command -> position of its thread, what it sends
    n_cmds,         \* number of command threads started so far
    tile_popups,    \* number of "Hue Error" popups the tile opened
    gesture,        \* history: "idle", "drag" (slider moving), "released"
    g_reqs,         \* history: brightness requests dispatched since the gesture began
    g_fires,        \* history: times the quiet timer fired since the gesture began
    \* ---- src/myapp/app.py SettingsScreen ----
    s_bridge_ip,    \* bridge_ip
    s_username,     \* username
    s_lbl,          \* ids.status_lbl.text
    btn_disabled,   \* ids.btn_discover.disabled
    sd_worker,      \* the thread of discover(): its position and its ips
    sv_worker,      \* save() call -> its thread: ip, user and the calls it made
    n_saves,        \* number of save() calls so far
    n_discovers,    \* number of discover() calls so far
    back_timers,    \* pending Clock.schedule_once(self.go_back, 1.0) events
    worker_wrote,   \* history: screen properties a worker thread assigned itself
    \* ---- src/myapp/hue.py and src/hue.py: the stored configuration ----
    cfg_file,       \* what CONFIG_PATH holds
    env,            \* HUE_BRIDGE_IP and HUE_USERNAME, "" = not set
    cfg_stored,     \* history: the values save_config has stored completely
    saver,          \* the thread running save_config
    cfg_op,         \* one operation of the bridge client and its load_config
    cfg_requests,   \* the calls cfg_op made on _session, in order
    \* ---- src/myapp/hue.py discover_bridges ----
    disc_pc,        \* "idle", the strategy that is running, "return", "done"
    skip_cloud,     \* skip_cloud
    ips,            \* ips
    disc_result,    \* the list discover_bridges returned
    strat,          \* history: strategy -> how far it is and what it returned
    \* ---- src/myapp/hue.py _discover_via_tcp_sweep ----
    sw_pc,          \* "idle", "submit", "collect" (in as_completed), "done"
    sw_prefixes,    \* len(prefixes)
    sw_prefix,      \* the prefix the loop is at
    fut,            \* host -> its future in the pool of the current prefix
    sw_threads,     \* worker threads the pool has started
    sw_probes,      \* history: prefix -> host -> calls of _probe_bridge_ip
    hits,           \* hits
    sw_result,      \* the addresses _discover_via_tcp_sweep returned
    \* ---- src/myapp/hue.py and src/hue.py: the bridge's answers ----
    link_button,    \* the bridge: its link button was pressed
    p_call,         \* the last call: the function, its version, the answer it got
    p_out,          \* how that call ended
    refused,        \* history: a create_user call got the link-button error
    \* ---- src/myapp/hue.py and src/hue.py: one entry of a listing ----
    ls_call,        \* the function, its version, the record of the light or group
    ls_out,         \* the on and bri it reported for that record
    \* ---- the bridge ----
    bridge_on,      \* the on-state the bridge holds for the tile's item
    \* ---- src/myapp/hue.py list_lights_detailed_for_room ----
    rl_call,        \* what the bridge answers to the two requests of the call
    rl_out          \* how far the call is, its requests and what it returned

clientVars == <<call, client_pc, requests>>
roomsVars  == <<gen_rooms, loading_rooms, rooms, status_lbl, msg_timers,
                rooms_worker, rooms_result, rooms_netOrder, rooms_assigned>>
lightsVars == <<current, room_id, room_name, loading, lights, lights_status,
                n_lights, lights_worker, lights_result, lights_regressed>>
gridVars == <<inited, view, gen, loading_lights, item_grid, popups,
              grid_worker, grid_result, grid_dropped>>
settingsVars == <<s_bridge_ip, s_username, s_lbl, btn_disabled, sd_worker,
                  sv_worker, n_saves, n_discovers, back_timers, worker_wrote>>
\* the room screen without ScreenManager.current, which go_back writes
lightsData == <<room_id, room_name, loading, lights, lights_status, n_lights,
                lights_worker, lights_result, lights_regressed>>
tileVars == <<item_kind, is_on, brightness, supports_color, bri_job, timers,
              n_timers, cmds, n_cmds, tile_popups, gesture, g_reqs, g_fires>>
\* the rooms list without the status label that show_message writes
roomsData == <<gen_rooms, loading_rooms, rooms, rooms_worker, rooms_result,
               rooms_netOrder, rooms_assigned>>
configVars == <<cfg_file, env, cfg_stored, saver, cfg_op, cfg_requests>>
discVars == <<disc_pc, skip_cloud, ips, disc_result, strat>>
sweepVars == <<sw_pc, sw_prefixes, sw_prefix, fut, sw_threads, sw_probes,
               hits, sw_result>>
parseVars == <<link_button, p_call, p_out, refused>>
listVars == <<ls_call, ls_out, rl_call, rl_out>>
bridgeVars == <<bridge_on>>
\* the application: the Clock and the screens
appVars == <<clock, stopped, roomsVars, lightsVars, gridVars, tileVars, settingsVars>>
\* the parts of the bridge client that have a specification of their own
hueVars == <<configVars, discVars, sweepVars, parseVars, listVars>>
vars == <<clientVars, bridgeVars, clock, stopped, roomsVars, lightsVars, gridVars, tileVars,
          settingsVars, hueVars>>

\* what the actions of one component leave alone
notClient == <<bridgeVars, clock, stopped, roomsVars, lightsVars, gridVars, tileVars,
               settingsVars, hueVars>>
notRooms  == <<clientVars, bridgeVars, stopped, lightsVars, gridVars, tileVars, settingsVars,
               hueVars>>
notLights == <<clientVars, bridgeVars, stopped, roomsVars, gridVars, tileVars, settingsVars,
               hueVars>>
notSettings == <<clientVars, bridgeVars, stopped, roomsVars, lightsData, gridVars, tileVars,
                 hueVars>>
\* the grid and the tile: what the callback that ends the event loop leaves
\* alone too
besideGrid == <<clientVars, bridgeVars, roomsVars, lightsVars, tileVars, settingsVars, hueVars>>
aroundTile == <<clientVars, roomsData, lightsVars, gridVars, settingsVars, hueVars>>
besideTile == <<aroundTile, bridgeVars>>
notGrid   == <<besideGrid, stopped>>
notTile   == <<besideTile, stopped>>
notConfig == <<clientVars, bridgeVars, appVars, discVars, sweepVars, parseVars, listVars>>
notDiscover == <<clientVars, bridgeVars, appVars, configVars, sweepVars, parseVars, listVars>>
notSweep == <<clientVars, bridgeVars, appVars, configVars, discVars, parseVars, listVars>>
notParse == <<clientVars, bridgeVars, appVars, configVars, discVars, sweepVars, listVars>>
notList == <<clientVars, bridgeVars, appVars, configVars, discVars, sweepVars, parseVars>>

----------------------------------------------------------------------------
(* Bounds of the model.                                                    *)

\* fetches of the rooms list that are started in one run
MaxFetch == 2
\* fetches of a room's lights that are started in one run
MaxLightFetch == 4
\* refresh requests (fetch, switch_view) of src/main.py's grid in one run
MaxGridFetch == 3
\* commands (toggle, brightness, colour) of the tile in one run
MaxCmds == 2
\* on_slider_change events of the tile in one run
MaxChanges == 2
\* item (light or group) ids are 1..NumItems
NumItems == 2
\* brightness percents are drawn from -PctOver .. 100 + PctOver
PctOver == 20
\* hue degrees are drawn from -MaxDeg .. MaxDeg
MaxDeg == 400
\* saturation percents are drawn from -SatOver .. 100 + SatOver
SatOver == 5
\* save_config calls in one run
MaxSaves == 2
\* addresses in the list one discovery strategy returns
MaxFound == 2
\* entries in a list the bridge answers with
MaxItems == 2
\* member ids in the "lights" list of a group
MaxMembers == 2
\* lights the bridge knows
NumLights == 3
\* hosts of a /24 prefix the sweep probes (254 in the code)
NumHosts == 3
\* max_workers of the sweep's pool (32 by default in the code)
MaxWorkers == 2
\* the prefixes _primary_lan_prefixes falls back to
FallbackPrefixes == 3
\* discover() calls of the settings screen in one run
MaxDiscovers == 1
\* save() calls of the settings screen in one run
MaxSaveCalls == 1
\* the largest bri of the bridge, and the default of d.get("bri", 254)
MaxBri == 254

ItemIds  == 1..NumItems
Kinds    == {"light", "room"}
Percents == (0 - PctOver)..(100 + PctOver)
Degrees  == (0 - MaxDeg)..MaxDeg
SatPcts  == (0 - SatOver)..(100 + SatOver)

----------------------------------------------------------------------------
(* src/myapp/hue.py: numeric conversions.                                  *)

Max(a, b) == IF a >= b THEN a ELSE b
Min(a, b) == IF a <= b THEN a ELSE b

\* round(n / d) rounding up every tie: what a port with floor(x + 0.5) does.
RoundHalfUp(n, d) ==
    LET q == n \div d
        r == n % d
    IN  IF 2 * r >= d THEN q + 1 ELSE q

\* Python 3 round(n / d) for d > 0: nearest integer, ties to the even one.
\* Every quotient the client rounds is either an exact multiple of 1/2 or at
\* least 1/360 away from one, so the float division does not change the result.
RoundHalfEven(n, d) ==
    LET q == n \div d
        r == n % d
    IN  IF 2 * r < d THEN q
        ELSE IF 2 * r > d THEN q + 1
        ELSE IF q % 2 = 0 THEN q ELSE q + 1

\* The remainder of C and Java, which takes the sign of the dividend.
TruncRem(a, b) == IF a >= 0 THEN a % b ELSE 0 - ((0 - a) % b)

\* Python's a % b for b > 0: the result is in 0 .. b-1, also for a < 0.
PyMod(a, b) == a - b * (a \div b)

\* set_brightness without the lower clamp max(1, ...).
ToDeviceBriNoFloor(percent) ==
    Min(254, RoundHalfEven(Max(0, Min(100, percent)) * 254, 100))

\* pct = max(0, min(100, int(percent))); bri = max(1, min(254, int(round(pct * 254 / 100))))
ToDeviceBri(percent) ==
    LET pct == Max(0, Min(100, percent))
    IN  Max(1, Min(254, RoundHalfEven(pct * 254, 100)))

\* int(round(bri_raw * 100 / 254)) for a numeric bri_raw
ToPercent(bri_raw) == RoundHalfEven(bri_raw * 100, 254)

\* hue = int(round((hue_degrees % 360) * 65535 / 360.0))
ToDeviceHue(hue_degrees) == RoundHalfEven(PyMod(hue_degrees, 360) * 65535, 360)

\* set_color_hs without the clamp of sat_percent.
ToDeviceSatNoClamp(sat_percent) == RoundHalfEven(sat_percent * 254, 100)

\* sat = int(round(max(0, min(100, sat_percent)) * 254 / 100.0))
ToDeviceSat(sat_percent) ==
    RoundHalfEven(Max(0, Min(100, sat_percent)) * 254, 100)

----------------------------------------------------------------------------
(* src/myapp/hue.py: the requests of the command operations.               *)

\* A JSON body: keys is the set of keys it carries.
Body(keys, on, bri, hue, sat) ==
    [keys |-> keys, on |-> on, bri |-> bri, hue |-> hue, sat |-> sat]

OnBody(on)              == Body({"on"}, on, 0, 0, 0)
BrightnessBody(percent) == Body({"on", "bri"}, TRUE, ToDeviceBri(percent), 0, 0)
ColorBody(deg, sat)     ==
    Body({"on", "hue", "sat"}, TRUE, 0, ToDeviceHue(deg), ToDeviceSat(sat))

\* _api_url("lights", id, "state") for a light, _api_url("groups", id, "action")
\* for a room.
CommandPath(kind, id) ==
    IF kind = "light" THEN <<"lights", id, "state">>
                      ELSE <<"groups", id, "action">>

Put(kind, id, body) ==
    [method |-> "PUT", path |-> CommandPath(kind, id), body |-> body]

NoCall == [op |-> "none", kind |-> "light", id |-> 0, on |-> FALSE,
           percent |-> 0, deg |-> 0, sat |-> 0]

ClientCalls ==
    {[op |-> "set_on", kind |-> k, id |-> i, on |-> o,
      percent |-> 0, deg |-> 0, sat |-> 0] :
        k \in Kinds, i \in ItemIds, o \in BOOLEAN}
    \cup
    {[op |-> "set_brightness", kind |-> k, id |-> i, on |-> FALSE,
      percent |-> p, deg |-> 0, sat |-> 0] :
        k \in Kinds, i \in ItemIds, p \in Percents}
    \cup
    {[op |-> "set_color_hs", kind |-> k, id |-> i, on |-> FALSE,
      percent |-> 0, deg |-> d, sat |-> s] :
        k \in Kinds, i \in ItemIds, d \in Degrees, s \in SatPcts}

InitClient == /\ call \in ClientCalls
              /\ client_pc = "ready"
              /\ requests = <<>>

\* No client call is under study: the other components' specifications.
IdleClient == /\ call = NoCall
              /\ client_pc = "done"
              /\ requests = <<>>

\* set_on / set_room_on
SetOn ==
    /\ client_pc = "ready" /\ call.op = "set_on"
    /\ requests' = <<Put(call.kind, call.id, OnBody(call.on))>>
    /\ client_pc' = "done"
    /\ UNCHANGED <<call, notClient>>

\* set_brightness / set_room_brightness
SetBrightness ==
    /\ client_pc = "ready" /\ call.op = "set_brightness"
    /\ requests' = <<Put(call.kind, call.id, BrightnessBody(call.percent))>>
    /\ client_pc' = "done"
    /\ UNCHANGED <<call, notClient>>

\* set_color_hs / set_room_color_hs
SetColorHS ==
    /\ client_pc = "ready" /\ call.op = "set_color_hs"
    /\ requests' = <<Put(call.kind, call.id, ColorBody(call.deg, call.sat))>>
    /\ client_pc' = "done"
    /\ UNCHANGED <<call, notClient>>

NextClient == SetOn \/ SetBrightness \/ SetColorHS

----------------------------------------------------------------------------
(* Kivy Clock: Clock.schedule_once(cb) appends cb; the event loop runs the *)
(* callbacks one at a time, oldest first.                                  *)

Callback(cb, id) == [cb |-> cb, id |-> id]
Schedule(cb, id) == Append(clock, Callback(cb, id))
NextCallback(cb) == clock # <<>> /\ Head(clock).cb = cb

----------------------------------------------------------------------------
(* src/myapp/app.py MainScreen: the rooms list.                            *)

Tokens == 1..MaxFetch
\* the texts str(e) of the exceptions list_rooms_detailed raises
Errors == {"timeout", "hue error"}

InitRooms ==
    /\ gen_rooms = 0
    /\ loading_rooms = FALSE
    /\ rooms = 0
    /\ status_lbl = ""
    /\ msg_timers = {}
    /\ rooms_worker = [g \in Tokens |-> "none"]
    /\ rooms_result = [g \in Tokens |-> "none"]
    /\ rooms_netOrder = <<>>
    /\ rooms_assigned = {}

\* assign() without its guard.
StaleAccepted(g) == TRUE

\* a counter that stays at its first token
TokenHeld(counter) == IF counter = 0 THEN 1 ELSE counter

\* "self._gen_rooms += 1; gen = int(self._gen_rooms)" and "self._gen += 1;
\* gen = int(self._gen)": the token a fetch captures from its counter
NextToken(counter) == counter + 1

\* assign(): "if gen != self._gen_rooms: return"
RoomsAssignCurrent(g) == g = gen_rooms

\* fetch_rooms_async, up to the start of the thread
FetchRoomsAsync ==
    /\ gen_rooms < MaxFetch
    /\ loading_rooms' = TRUE
    /\ gen_rooms' = NextToken(gen_rooms)
    /\ rooms_worker' = [rooms_worker EXCEPT ![NextToken(gen_rooms)] = "net"]
    /\ UNCHANGED <<notRooms, clock, rooms, status_lbl, msg_timers,
                   rooms_result, rooms_netOrder, rooms_assigned>>

\* work(): list_rooms_detailed() returned; assign is scheduled
RoomsNetOk(g) ==
    /\ rooms_worker[g] = "net"
    /\ rooms_result' = [rooms_result EXCEPT ![g] = "ok"]
    /\ rooms_netOrder' = Append(rooms_netOrder, g)
    /\ clock' = Schedule("rooms_assign", g)
    /\ rooms_worker' = [rooms_worker EXCEPT ![g] = "finally"]
    /\ UNCHANGED <<notRooms, gen_rooms, loading_rooms, rooms, status_lbl,
                   msg_timers, rooms_assigned>>

\* work(): list_rooms_detailed() raised e; show_message is scheduled
RoomsNetFail(g, e) ==
    /\ rooms_worker[g] = "net"
    /\ rooms_result' = [rooms_result EXCEPT ![g] = e]
    /\ rooms_netOrder' = Append(rooms_netOrder, g)
    /\ clock' = Schedule("rooms_error", g)
    /\ rooms_worker' = [rooms_worker EXCEPT ![g] = "finally"]
    /\ UNCHANGED <<notRooms, gen_rooms, loading_rooms, rooms, status_lbl,
                   msg_timers, rooms_assigned>>

\* work(): the finally clause schedules loading_rooms = False
RoomsFinally(g) ==
    /\ rooms_worker[g] = "finally"
    /\ clock' = Schedule("rooms_loading_false", g)
    /\ rooms_worker' = [rooms_worker EXCEPT ![g] = "done"]
    /\ UNCHANGED <<notRooms, gen_rooms, loading_rooms, rooms, status_lbl,
                   msg_timers, rooms_result, rooms_netOrder, rooms_assigned>>

\* the event loop runs assign()
RunRoomsAssign ==
    /\ NextCallback("rooms_assign")
    /\ clock' = Tail(clock)
    /\ LET g == Head(clock).id
       IN  IF RoomsAssignCurrent(g)
           THEN /\ rooms' = g
                /\ rooms_assigned' = rooms_assigned \cup {g}
           ELSE UNCHANGED <<rooms, rooms_assigned>>
    /\ UNCHANGED <<notRooms, gen_rooms, loading_rooms, status_lbl, msg_timers,
                   rooms_worker, rooms_result, rooms_netOrder>>

\* the text show_message displays for fetch g: f"Rooms error: {e}"
RoomsErrorText(g) == rooms_result[g]

\* the event loop runs show_message(msg, 3)
RunRoomsError ==
    /\ NextCallback("rooms_error")
    /\ clock' = Tail(clock)
    /\ LET g == Head(clock).id
       IN  /\ status_lbl' = RoomsErrorText(g)
           /\ msg_timers' = msg_timers \cup {[text |-> RoomsErrorText(g), id |-> g]}
    /\ UNCHANGED <<notRooms, gen_rooms, loading_rooms, rooms, rooms_worker,
                   rooms_result, rooms_netOrder, rooms_assigned>>

\* the event loop runs setattr(self, "loading_rooms", False)
RunRoomsLoadingFalse ==
    /\ NextCallback("rooms_loading_false")
    /\ clock' = Tail(clock)
    /\ loading_rooms' = FALSE
    /\ UNCHANGED <<notRooms, gen_rooms, rooms, status_lbl, msg_timers,
                   rooms_worker, rooms_result, rooms_netOrder, rooms_assigned>>

\* show_message: clear_message runs when its duration has passed
ClearMessage(t) ==
    /\ ~stopped
    /\ t \in msg_timers
    /\ msg_timers' = msg_timers \ {t}
    /\ status_lbl' = IF status_lbl = t.text THEN "" ELSE status_lbl
    /\ UNCHANGED <<notRooms, clock, gen_rooms, loading_rooms, rooms,
                   rooms_worker, rooms_result, rooms_netOrder, rooms_assigned>>

NextRooms ==
    \/ FetchRoomsAsync
    \/ \E g \in Tokens : RoomsNetOk(g)
    \/ \E g \in Tokens, e \in Errors : RoomsNetFail(g, e)
    \/ \E g \in Tokens : RoomsFinally(g)
    \/ RunRoomsAssign
    \/ RunRoomsError
    \/ RunRoomsLoadingFalse
    \/ \E t \in msg_timers : ClearMessage(t)

----------------------------------------------------------------------------
(* src/myapp/app.py HueApp.open_room and RoomLightsScreen.                 *)

LightFetches == 1..MaxLightFetch
\* the text str(e) of the exception list_lights_detailed_for_room raises
LightsErrors == {"timeout"}

InitLights ==
    /\ current = "main"
    /\ room_id = -1
    /\ room_name = 0
    /\ loading = FALSE
    /\ lights = [room |-> 0, fetch |-> 0]
    /\ lights_status = ""
    /\ n_lights = 0
    /\ lights_worker = [k \in LightFetches |-> [pc |-> "none", room |-> 0]]
    /\ lights_result = [k \in LightFetches |-> "none"]
    /\ lights_regressed = FALSE

\* the threads fetch_lights_async starts when it is called `calls` times in a
\* row with room_id = rid: none when rid < 0 ("if self.room_id < 0: return")
LightsStarted(rid, calls) ==
    IF rid < 0 THEN {} ELSE (n_lights + 1)..(n_lights + calls)

\* open_room, called from a RoomTile of the main screen: set_room,
\* fetch_lights_async, and root.current = "room_lights", which makes the
\* ScreenManager dispatch on_pre_enter, a second fetch_lights_async.
OpenRoom(rid) ==
    /\ current = "main"
    /\ n_lights + 2 <= MaxLightFetch
    /\ room_id' = rid
    /\ room_name' = rid
    /\ LET started == LightsStarted(rid, 2)
       IN  /\ loading' = IF started = {} THEN loading ELSE TRUE
           /\ n_lights' = n_lights + Cardinality(started)
           /\ lights_worker' =
                  [k \in LightFetches |->
                      IF k \in started THEN [pc |-> "start", room |-> 0]
                                       ELSE lights_worker[k]]
    /\ current' = "room_lights"
    /\ UNCHANGED <<notLights, clock, lights, lights_status, lights_result,
                   lights_regressed>>

\* RoomLightsScreen.go_back
GoBack ==
    /\ current = "room_lights"
    /\ current' = "main"
    /\ UNCHANGED <<notLights, clock, room_id, room_name, loading, lights,
                   lights_status, n_lights, lights_worker, lights_result,
                   lights_regressed>>

\* work(): the thread evaluates self.room_id and calls
\* list_lights_detailed_for_room with it
LightsRead(k) ==
    /\ lights_worker[k].pc = "start"
    /\ lights_worker' = [lights_worker EXCEPT ![k] = [pc |-> "net", room |-> room_id]]
    /\ UNCHANGED <<notLights, clock, current, room_id, room_name, loading,
                   lights, lights_status, n_lights, lights_result,
                   lights_regressed>>

\* what work() schedules after its network call: first the callback of the try
\* or except block, then the finally clause's loading = False.  The two
\* schedule_once calls are one step here: they follow each other in the thread
\* without a suspension point, and callbacks of different threads that could
\* fall between them write different properties (lights, status text, loading).
ScheduleBoth(cb, k) ==
    Append(Schedule(cb, k), Callback("lights_loading_false", k))

\* work(): list_lights_detailed_for_room returned; assign is scheduled
LightsNetOk(k) ==
    /\ lights_worker[k].pc = "net"
    /\ lights_result' = [lights_result EXCEPT ![k] = "ok"]
    /\ clock' = ScheduleBoth("lights_assign", k)
    /\ lights_worker' = [lights_worker EXCEPT ![k].pc = "done"]
    /\ UNCHANGED <<notLights, current, room_id, room_name, loading, lights,
                   lights_status, n_lights, lights_regressed>>

\* work(): list_lights_detailed_for_room raised e; the status text is scheduled
LightsNetFail(k, e) ==
    /\ lights_worker[k].pc = "net"
    /\ lights_result' = [lights_result EXCEPT ![k] = e]
    /\ clock' = ScheduleBoth("lights_error", k)
    /\ lights_worker' = [lights_worker EXCEPT ![k].pc = "done"]
    /\ UNCHANGED <<notLights, current, room_id, room_name, loading, lights,
                   lights_status, n_lights, lights_regressed>>

\* the event loop runs assign(): self.lights = items, the grid is rebuilt
RunLightsAssign ==
    /\ NextCallback("lights_assign")
    /\ clock' = Tail(clock)
    /\ LET k == Head(clock).id
       IN  /\ lights' = [room |-> lights_worker[k].room, fetch |-> k]
           /\ lights_regressed' = (lights_regressed \/ k < lights.fetch)
    /\ UNCHANGED <<notLights, current, room_id, room_name, loading,
                   lights_status, n_lights, lights_worker, lights_result>>

\* the event loop runs setattr(self.ids.status_lbl, "text", msg)
RunLightsError ==
    /\ NextCallback("lights_error")
    /\ clock' = Tail(clock)
    /\ lights_status' = lights_result[Head(clock).id]
    /\ UNCHANGED <<notLights, current, room_id, room_name, loading, lights,
                   n_lights, lights_worker, lights_result, lights_regressed>>

\* the event loop runs setattr(self, "loading", False)
RunLightsLoadingFalse ==
    /\ NextCallback("lights_loading_false")
    /\ clock' = Tail(clock)
    /\ loading' = FALSE
    /\ UNCHANGED <<notLights, current, room_id, room_name, lights,
                   lights_status, n_lights, lights_worker, lights_result,
                   lights_regressed>>

NextLights ==
    \/ \E rid \in ItemIds : OpenRoom(rid)
    \/ GoBack
    \/ \E k \in LightFetches : LightsRead(k)
    \/ \E k \in LightFetches : LightsNetOk(k)
    \/ \E k \in LightFetches, e \in LightsErrors : LightsNetFail(k, e)
    \/ RunLightsAssign
    \/ RunLightsError
    \/ RunLightsLoadingFalse

----------------------------------------------------------------------------
(* src/main.py MainScreen: one grid that shows the rooms or the lights.    *)

GridTokens == 1..MaxGridFetch
Views == {"rooms", "lights"}
\* the text str(e) of the exception list_rooms_detailed / list_lights_detailed raises
GridErrors == {"timeout"}

InitGrid ==
    /\ inited = FALSE
    /\ view = "rooms"
    /\ gen = 0
    /\ loading_lights = FALSE
    /\ item_grid = [kind |-> "none", gen |-> 0]
    /\ popups = 0
    /\ grid_worker = [g \in GridTokens |-> [pc |-> "none", kind |-> "none"]]
    /\ grid_result = [g \in GridTokens |-> "none"]
    /\ grid_dropped = {}

\* assign(): "if gen != self._gen: return"
GridAssignCurrent(g) == g = gen

\* fetch_rooms_async / fetch_lights_async return at once while a fetch is in
\* flight: "if self.loading_lights: return"
GridFetchSuppressed == loading_lights

\* fetch() with self.view = which: _gen += 1, then fetch_rooms_async(gen) or
\* fetch_lights_async(gen), which starts a thread unless loading_lights is set
GridFetch(which) ==
    /\ gen' = NextToken(gen)
    /\ IF GridFetchSuppressed
       THEN UNCHANGED <<loading_lights, grid_worker>>
       ELSE /\ loading_lights' = TRUE
            /\ grid_worker' = [grid_worker EXCEPT
                                  ![NextToken(gen)] =
                                      [pc |-> "net", kind |-> which]]

\* refresh requests made so far: fetch() calls that ran or are scheduled
GridRequests ==
    gen + Cardinality({i \in 1..Len(clock) : clock[i].cb = "grid_fetch"})

\* on_pre_enter: the first time, fetch is scheduled onto the event loop
GridOnPreEnter ==
    /\ ~stopped
    /\ ~inited
    /\ GridRequests < MaxGridFetch
    /\ inited' = TRUE
    /\ clock' = Schedule("grid_fetch", 0)
    /\ UNCHANGED <<notGrid, view, gen, loading_lights, item_grid, popups,
                   grid_worker, grid_result, grid_dropped>>

\* the event loop runs the fetch() that on_pre_enter scheduled
RunGridFetch ==
    /\ ~stopped
    /\ NextCallback("grid_fetch")
    /\ clock' = Tail(clock)
    /\ GridFetch(view)
    /\ UNCHANGED <<notGrid, inited, view, item_grid, popups, grid_result,
                   grid_dropped>>

\* switch_view(which): self.view = which; self.fetch()
SwitchView(which) ==
    /\ ~stopped
    /\ GridRequests < MaxGridFetch
    /\ view' = which
    /\ GridFetch(which)
    /\ UNCHANGED <<notGrid, clock, inited, item_grid, popups, grid_result,
                   grid_dropped>>

\* work(): the list call returned; assign is scheduled
GridNetOk(g) ==
    /\ ~stopped
    /\ grid_worker[g].pc = "net"
    /\ grid_result' = [grid_result EXCEPT ![g] = "ok"]
    /\ clock' = Schedule("grid_assign", g)
    /\ grid_worker' = [grid_worker EXCEPT ![g].pc = "finally"]
    /\ UNCHANGED <<notGrid, inited, view, gen, loading_lights, item_grid,
                   popups, grid_dropped>>

\* work(): the list call raised e; the error popup is scheduled
GridNetFail(g, e) ==
    /\ ~stopped
    /\ grid_worker[g].pc = "net"
    /\ grid_result' = [grid_result EXCEPT ![g] = e]
    /\ clock' = Schedule("grid_popup", g)
    /\ grid_worker' = [grid_worker EXCEPT ![g].pc = "finally"]
    /\ UNCHANGED <<notGrid, inited, view, gen, loading_lights, item_grid,
                   popups, grid_dropped>>

\* work(): the finally clause schedules loading_lights = False
GridFinally(g) ==
    /\ ~stopped
    /\ grid_worker[g].pc = "finally"
    /\ clock' = Schedule("grid_loading_false", g)
    /\ grid_worker' = [grid_worker EXCEPT ![g].pc = "done"]
    /\ UNCHANGED <<notGrid, inited, view, gen, loading_lights, item_grid,
                   popups, grid_result, grid_dropped>>

\* the event loop runs assign(): the grid is cleared and filled with tiles
RunGridAssign ==
    /\ ~stopped
    /\ NextCallback("grid_assign")
    /\ clock' = Tail(clock)
    /\ LET g == Head(clock).id
       IN  IF GridAssignCurrent(g)
           THEN /\ item_grid' = [kind |-> grid_worker[g].kind, gen |-> g]
                /\ UNCHANGED grid_dropped
           ELSE /\ grid_dropped' = grid_dropped \cup {g}
                /\ UNCHANGED item_grid
    /\ UNCHANGED <<notGrid, inited, view, gen, loading_lights, popups,
                   grid_worker, grid_result>>

\* the event loop runs the error callback while the worker is still in its
\* except clause, where e is bound: the "Hue Error" popup opens with str(e)
RunGridPopup ==
    /\ ~stopped
    /\ NextCallback("grid_popup")
    /\ grid_worker[Head(clock).id].pc = "finally"
    /\ clock' = Tail(clock)
    /\ popups' = popups + 1
    /\ UNCHANGED <<notGrid, inited, view, gen, loading_lights, item_grid,
                   grid_worker, grid_result, grid_dropped>>

\* the event loop runs the error callback after the worker left its except
\* clause, which unbinds e: "lambda *_: Popup(... str(e) ...)" raises
\* NameError, and the event loop, which has no exception handler, stops
RunGridPopupUnbound ==
    /\ ~stopped
    /\ NextCallback("grid_popup")
    /\ clock' = Tail(clock)
    /\ stopped' = TRUE
    /\ UNCHANGED <<besideGrid, inited, view, gen, loading_lights, item_grid,
                   popups, grid_worker, grid_result, grid_dropped>>

\* the event loop runs setattr(self, "loading_lights", False)
RunGridLoadingFalse ==
    /\ ~stopped
    /\ NextCallback("grid_loading_false")
    /\ clock' = Tail(clock)
    /\ loading_lights' = FALSE
    /\ UNCHANGED <<notGrid, inited, view, gen, item_grid, popups,
                   grid_worker, grid_result, grid_dropped>>

NextGrid ==
    \/ GridOnPreEnter
    \/ RunGridFetch
    \/ \E which \in Views : SwitchView(which)
    \/ \E g \in GridTokens : GridNetOk(g)
    \/ \E g \in GridTokens, e \in GridErrors : GridNetFail(g, e)
    \/ \E g \in GridTokens : GridFinally(g)
    \/ RunGridAssign
    \/ RunGridPopup
    \/ RunGridPopupUnbound
    \/ RunGridLoadingFalse

\* the steps of the grid's worker threads and of the event loop
GridProgress ==
    \/ \E g \in GridTokens : GridNetOk(g)
    \/ \E g \in GridTokens, e \in GridErrors : GridNetFail(g, e)
    \/ \E g \in GridTokens : GridFinally(g)
    \/ RunGridFetch
    \/ RunGridAssign
    \/ RunGridPopup
    \/ RunGridPopupUnbound
    \/ RunGridLoadingFalse

----------------------------------------------------------------------------
(* src/myapp/ui.py HueTile: one tile, a LightTile or a RoomTile.           *)

CmdIds == 1..MaxCmds
\* values the slider is moved to
SliderVals == {0, 60}
\* two of the presets of open_color_picker (hue degrees, saturation percent)
Presets == {<<30, 90>>, <<0, 90>>}
\* the text str(e) of the exception a command raises
TileErrors == {"timeout"}

NoCmd == [pc |-> "none", op |-> "none", on |-> FALSE, percent |-> 0,
          body |-> OnBody(FALSE), result |-> "none"]

\* a tile as update_rooms_view / assign construct it
TileInit(kind, on, bri, color) ==
    /\ item_kind = kind
    /\ is_on = on
    /\ brightness = bri
    /\ supports_color = color
    /\ bri_job = 0
    /\ timers = {}
    /\ n_timers = 0
    /\ cmds = [i \in CmdIds |-> NoCmd]
    /\ n_cmds = 0
    /\ tile_popups = 0
    /\ gesture = "idle"
    /\ g_reqs = 0
    /\ g_fires = 0

InitTile == TileInit("light", FALSE, 0, FALSE)

\* threading.Thread(target=work, daemon=True).start(): work() calls
\* _call_api_toggle / _call_api_brightness / _call_api_color, which send body;
\* on is what _set_on receives when the call succeeds
StartCmd(op, on, percent, body) ==
    /\ n_cmds' = n_cmds + 1
    /\ cmds' = [cmds EXCEPT ![n_cmds + 1] =
                   [pc |-> "net", op |-> op, on |-> on, percent |-> percent,
                    body |-> body, result |-> "none"]]

\* _commit_brightness: percent = int(self.brightness), then the thread
CommitBrightness ==
    StartCmd("brightness", brightness > 0, brightness, BrightnessBody(brightness))

\* the slider handlers without the cancel of the pending commit
KeepJob == timers

\* "if self._bri_job: self._bri_job.cancel()": the events still scheduled
CancelJob == timers \ {bri_job}

\* MainScreen.show_message(text, duration), reached through
\* MDApp.get_running_app().show_message
ShowMessage(text, id) ==
    /\ status_lbl' = text
    /\ msg_timers' = msg_timers \cup {[text |-> text, id |-> id]}

\* a run has room for one more command thread beside the commit every
\* pending timer will start (the bound MaxCmds never holds a timer back)
RoomForCmd == n_cmds + Cardinality(timers) < MaxCmds

\* a toggle that always switches on
TargetOn == TRUE

\* "target_state = not self.is_on"
TargetState == ~is_on

\* toggle
Toggle ==
    /\ ~stopped
    /\ RoomForCmd
    /\ StartCmd("toggle", TargetState, 0, OnBody(TargetState))
    /\ UNCHANGED <<notTile, clock, status_lbl, msg_timers, item_kind, is_on,
                   brightness, supports_color, bri_job, timers, n_timers,
                   tile_popups, gesture, g_reqs, g_fires>>

\* on_slider_change(val)
SliderChange(val) ==
    /\ ~stopped
    /\ n_timers < MaxChanges
    /\ n_cmds < MaxCmds
    /\ brightness' = val
    /\ n_timers' = n_timers + 1
    /\ bri_job' = n_timers + 1
    /\ timers' = CancelJob \cup {n_timers + 1}
    /\ gesture' = "drag"
    /\ g_reqs' = IF gesture = "drag" THEN g_reqs ELSE 0
    /\ g_fires' = IF gesture = "drag" THEN g_fires ELSE 0
    /\ UNCHANGED <<notTile, clock, status_lbl, msg_timers, item_kind, is_on,
                   supports_color, cmds, n_cmds, tile_popups>>

\* on_slider_release with the touch inside the slider
SliderReleaseInside ==
    /\ ~stopped
    /\ n_cmds + Cardinality(CancelJob) < MaxCmds
    /\ timers' = CancelJob
    /\ CommitBrightness
    /\ gesture' = IF gesture = "drag" THEN "released" ELSE gesture
    /\ g_reqs' = IF gesture = "drag" THEN g_reqs + (n_cmds' - n_cmds) ELSE g_reqs
    /\ UNCHANGED <<notTile, clock, status_lbl, msg_timers, item_kind, is_on,
                   brightness, supports_color, bri_job, n_timers, tile_popups,
                   g_fires>>

\* on_slider_release that cancels the pending commit also when the touch is
\* outside the slider
SliderReleaseOutsideCancels ==
    /\ ~stopped
    /\ gesture = "drag"
    /\ gesture' = "idle"
    /\ timers' = CancelJob
    /\ UNCHANGED <<notTile, clock, status_lbl, msg_timers, item_kind, is_on,
                   brightness, supports_color, bri_job, n_timers,
                   cmds, n_cmds, tile_popups, g_reqs, g_fires>>

\* on_slider_release with the touch outside the slider: nothing happens
SliderReleaseOutside ==
    /\ ~stopped
    /\ gesture = "drag"
    /\ gesture' = "idle"
    /\ UNCHANGED <<notTile, clock, status_lbl, msg_timers, item_kind, is_on,
                   brightness, supports_color, bri_job, timers, n_timers,
                   cmds, n_cmds, tile_popups, g_reqs, g_fires>>

\* 0.35 s have passed since Clock event t was scheduled: _commit_brightness
TimerFire(t) ==
    /\ ~stopped
    /\ t \in timers
    /\ n_cmds < MaxCmds
    /\ timers' = timers \ {t}
    /\ CommitBrightness
    /\ g_reqs' = IF gesture = "drag" THEN g_reqs + (n_cmds' - n_cmds) ELSE g_reqs
    /\ g_fires' = IF gesture = "drag" THEN g_fires + 1 ELSE g_fires
    /\ UNCHANGED <<notTile, clock, status_lbl, msg_timers, item_kind, is_on,
                   brightness, supports_color, bri_job, n_timers, tile_popups,
                   gesture>>

\* _commit_color(h, s), from a preset button of open_color_picker
CommitColor(h, s) ==
    /\ ~stopped
    /\ supports_color
    /\ RoomForCmd
    /\ StartCmd("color", TRUE, 0, ColorBody(h, s))
    /\ UNCHANGED <<notTile, clock, status_lbl, msg_timers, item_kind, is_on,
                   brightness, supports_color, bri_job, timers, n_timers,
                   tile_popups, gesture, g_reqs, g_fires>>

\* work(): the command returned; the success callback is scheduled
CmdOk(i) ==
    /\ ~stopped
    /\ cmds[i].pc = "net"
    /\ cmds' = [cmds EXCEPT ![i].pc = "done", ![i].result = "ok"]
    /\ clock' = Schedule("tile_success", i)
    /\ UNCHANGED <<notTile, status_lbl, msg_timers, item_kind, is_on,
                   brightness, supports_color, bri_job, timers, n_timers,
                   n_cmds, tile_popups, gesture, g_reqs, g_fires>>

\* work() that schedules _set_on whether or not the command raised
CmdFailSetsOn(i, e) ==
    /\ ~stopped
    /\ cmds[i].pc = "net"
    /\ cmds' = [cmds EXCEPT ![i].pc = "done", ![i].result = e]
    /\ clock' = Schedule("tile_success", i)
    /\ UNCHANGED <<notTile, status_lbl, msg_timers, item_kind, is_on,
                   brightness, supports_color, bri_job, timers, n_timers,
                   n_cmds, tile_popups, gesture, g_reqs, g_fires>>

\* work(): the command raised e; the error callback is scheduled
CmdFail(i, e) ==
    /\ ~stopped
    /\ cmds[i].pc = "net"
    /\ cmds' = [cmds EXCEPT ![i].pc = "done", ![i].result = e]
    /\ clock' = Schedule("tile_error", i)
    /\ UNCHANGED <<notTile, status_lbl, msg_timers, item_kind, is_on,
                   brightness, supports_color, bri_job, timers, n_timers,
                   n_cmds, tile_popups, gesture, g_reqs, g_fires>>

\* f"{self.item_name} brightness set to {percent}%"
BrightnessText(percent) == "brightness set to " \o ToString(percent) \o "%"

\* the event loop runs the success callback: _set_on, and for a brightness
\* commit also show_message
RunTileSuccess ==
    /\ ~stopped
    /\ NextCallback("tile_success")
    /\ clock' = Tail(clock)
    /\ LET i == Head(clock).id
       IN  /\ is_on' = cmds[i].on
           /\ IF cmds[i].op = "brightness"
              THEN ShowMessage(BrightnessText(cmds[i].percent), i)
              ELSE UNCHANGED <<status_lbl, msg_timers>>
           /\ cmds' = [cmds EXCEPT ![i] = NoCmd]
    /\ UNCHANGED <<notTile, item_kind, brightness, supports_color, bri_job,
                   timers, n_timers, n_cmds, tile_popups, gesture,
                   g_reqs, g_fires>>

\* the event loop runs the error callback before the worker has left its
\* except clause, where e is bound: a popup for toggle and colour,
\* show_message(f"Error: {e}") for a brightness commit
RunTileError ==
    /\ ~stopped
    /\ NextCallback("tile_error")
    /\ clock' = Tail(clock)
    /\ LET i == Head(clock).id
       IN  IF cmds[i].op = "brightness"
           THEN /\ ShowMessage("Error: " \o cmds[i].result, i)
                /\ UNCHANGED tile_popups
           ELSE /\ tile_popups' = tile_popups + 1
                /\ UNCHANGED <<status_lbl, msg_timers>>
    /\ cmds' = [cmds EXCEPT ![Head(clock).id] = NoCmd]
    /\ UNCHANGED <<notTile, item_kind, is_on, brightness, supports_color,
                   bri_job, timers, n_timers, n_cmds, gesture, g_reqs,
                   g_fires>>

\* the event loop runs the error callback after the worker left its except
\* clause, which unbinds e: "lambda *_: self._popup('Hue Error', str(e))" and
\* "lambda *_: ...show_message(f'Error: {e}')" raise NameError, and the event
\* loop, which has no exception handler, stops
RunTileErrorUnbound ==
    /\ ~stopped
    /\ NextCallback("tile_error")
    /\ clock' = Tail(clock)
    /\ stopped' = TRUE
    /\ UNCHANGED <<besideTile, status_lbl, msg_timers, tileVars>>

\* the request of command i reaches the bridge, which applies its body
BridgeApplies(i) ==
    /\ ~stopped
    /\ cmds[i].pc = "net"
    /\ cmds' = [cmds EXCEPT ![i].pc = "sent"]
    /\ bridge_on' = cmds[i].body.on
    /\ UNCHANGED <<aroundTile, stopped, clock, status_lbl, msg_timers,
                   item_kind, is_on, brightness, supports_color, bri_job,
                   timers, n_timers, n_cmds, tile_popups, gesture, g_reqs,
                   g_fires>>

\* work(): the call of command i returns; the success callback is scheduled
CmdReturns(i) ==
    /\ ~stopped
    /\ cmds[i].pc = "sent"
    /\ cmds' = [cmds EXCEPT ![i].pc = "done", ![i].result = "ok"]
    /\ clock' = Schedule("tile_success", i)
    /\ UNCHANGED <<notTile, status_lbl, msg_timers, item_kind, is_on,
                   brightness, supports_color, bri_job, timers, n_timers,
                   n_cmds, tile_popups, gesture, g_reqs, g_fires>>

\* the tile and the bridge when every command succeeds: the request of a
\* command and the return of its call are two steps of its thread
NextTileBridge ==
    \/ Toggle
    \/ \E val \in SliderVals : SliderChange(val)
    \/ SliderReleaseInside
    \/ SliderReleaseOutside
    \/ \E t \in timers : TimerFire(t)
    \/ \E p \in Presets : CommitColor(p[1], p[2])
    \/ \E i \in CmdIds : BridgeApplies(i)
    \/ \E i \in CmdIds : CmdReturns(i)
    \/ RunTileSuccess
    \/ \E t \in msg_timers : ClearMessage(t)

\* the tile with its slider alone: no toggle and no colour
NextSlider ==
    \/ \E val \in SliderVals : SliderChange(val)
    \/ SliderReleaseInside
    \/ SliderReleaseOutside
    \/ \E t \in timers : TimerFire(t)
    \/ \E i \in CmdIds : CmdOk(i)
    \/ \E i \in CmdIds, e \in TileErrors : CmdFail(i, e)
    \/ RunTileSuccess
    \/ RunTileError
    \/ RunTileErrorUnbound
    \/ \E t \in msg_timers : ClearMessage(t)

\* the 0.35 s of a pending commit timer pass
ClockAdvances == \E t \in timers : TimerFire(t)

NextTile ==
    \/ Toggle
    \/ \E val \in SliderVals : SliderChange(val)
    \/ SliderReleaseInside
    \/ SliderReleaseOutside
    \/ \E t \in timers : TimerFire(t)
    \/ \E p \in Presets : CommitColor(p[1], p[2])
    \/ \E i \in CmdIds : CmdOk(i)
    \/ \E i \in CmdIds, e \in TileErrors : CmdFail(i, e)
    \/ RunTileSuccess
    \/ RunTileError
    \/ RunTileErrorUnbound
    \/ \E t \in msg_timers : ClearMessage(t)

----------------------------------------------------------------------------
(* src/myapp/app.py SettingsScreen: on_pre_enter, discover and save.       *)

SaveIds == 1..MaxSaveCalls
\* what the text fields can hold: nothing, blanks, an address or a username
IpTexts == {"", " ", "10.0.0.5"}
UserTexts == {"", "user1"}
\* str.strip() of those texts
Strip(text) == IF text = " " THEN "" ELSE text

\* the lists discover_bridges(skip_cloud=True) returns
Discovered == {<<>>, <<"10.0.0.5">>, <<"10.0.0.5", "10.0.0.9">>}

\* '"Bridge: " + ", ".join(ips)'
BridgeText(found) ==
    IF Len(found) = 1 THEN "Bridge: " \o found[1]
    ELSE "Bridge: " \o found[1] \o ", " \o found[2]

\* create_user and save_config: "no" until the thread calls the function,
\* then "called", then "returned" or "raised"
NoSave == [pc |-> "none", ip |-> "", user |-> "", user_to_save |-> "",
           create_user |-> "no", save_config |-> "no"]

InitSettings ==
    /\ s_bridge_ip = ""
    /\ s_username = ""
    /\ s_lbl = ""
    /\ btn_disabled = FALSE
    /\ sd_worker = [pc |-> "none", ips |-> <<>>]
    /\ sv_worker = [i \in SaveIds |-> NoSave]
    /\ n_saves = 0
    /\ n_discovers = 0
    /\ back_timers = 0
    /\ worker_wrote = {}

\* the settings screen is entered from the main screen; on_pre_enter:
\* load_config() of src/myapp/hue.py, which does not raise, returned cfg
SettingsOnPreEnter(ip, user) ==
    /\ current = "main"
    /\ current' = "settings"
    /\ s_bridge_ip' = ip
    /\ s_username' = user
    /\ UNCHANGED <<notSettings, clock, s_lbl, btn_disabled, sd_worker,
                   sv_worker, n_saves, n_discovers, back_timers, worker_wrote>>

\* discover(), up to the start of the thread; a disabled button does not
\* call it
Discover ==
    /\ current = "settings"
    /\ ~btn_disabled
    /\ n_discovers < MaxDiscovers
    /\ n_discovers' = n_discovers + 1
    /\ s_lbl' = "Discovering Hue bridges"
    /\ btn_disabled' = TRUE
    /\ sd_worker' = [pc |-> "first", ips |-> <<>>]
    /\ UNCHANGED <<notSettings, clock, current, s_bridge_ip, s_username,
                   sv_worker, n_saves, back_timers, worker_wrote>>

\* work(): "ips = discover_bridges(skip_cloud=True)" returned found; when it
\* is empty the second attempt follows, else assign is scheduled
DiscoverFirst(found) ==
    /\ sd_worker.pc = "first"
    /\ IF found = <<>>
       THEN /\ sd_worker' = [pc |-> "second", ips |-> found]
            /\ UNCHANGED clock
       ELSE /\ sd_worker' = [pc |-> "finally", ips |-> found]
            /\ clock' = Schedule("discover_assign", 0)
    /\ UNCHANGED <<notSettings, current, s_bridge_ip, s_username, s_lbl,
                   btn_disabled, sv_worker, n_saves, n_discovers, back_timers,
                   worker_wrote>>

\* work(): "if not ips: ips = discover_bridges(skip_cloud=True)" returned
\* found; assign is scheduled
DiscoverSecond(found) ==
    /\ sd_worker.pc = "second"
    /\ sd_worker' = [pc |-> "finally", ips |-> found]
    /\ clock' = Schedule("discover_assign", 0)
    /\ UNCHANGED <<notSettings, current, s_bridge_ip, s_username, s_lbl,
                   btn_disabled, sv_worker, n_saves, n_discovers, back_timers,
                   worker_wrote>>

\* work(): a discover_bridges call raised; the error text is scheduled
DiscoverRaises ==
    /\ sd_worker.pc \in {"first", "second"}
    /\ sd_worker' = [sd_worker EXCEPT !.pc = "finally"]
    /\ clock' = Schedule("discover_error", 0)
    /\ UNCHANGED <<notSettings, current, s_bridge_ip, s_username, s_lbl,
                   btn_disabled, sv_worker, n_saves, n_discovers, back_timers,
                   worker_wrote>>

\* work() of discover without its finally clause
DiscoverEndsSilently ==
    /\ sd_worker.pc = "finally"
    /\ sd_worker' = [sd_worker EXCEPT !.pc = "done"]
    /\ UNCHANGED <<notSettings, clock, current, s_bridge_ip, s_username, s_lbl,
                   btn_disabled, sv_worker, n_saves, n_discovers, back_timers,
                   worker_wrote>>

\* work(): the finally clause schedules btn.disabled = False
DiscoverFinally ==
    /\ sd_worker.pc = "finally"
    /\ sd_worker' = [sd_worker EXCEPT !.pc = "done"]
    /\ clock' = Schedule("discover_enable", 0)
    /\ UNCHANGED <<notSettings, current, s_bridge_ip, s_username, s_lbl,
                   btn_disabled, sv_worker, n_saves, n_discovers, back_timers,
                   worker_wrote>>

\* the event loop runs assign() of discover
RunDiscoverAssign ==
    /\ NextCallback("discover_assign")
    /\ clock' = Tail(clock)
    /\ IF sd_worker.ips = <<>>
       THEN /\ s_lbl' = "No Hue bridges found"
            /\ UNCHANGED s_bridge_ip
       ELSE /\ s_bridge_ip' = sd_worker.ips[1]
            /\ s_lbl' = BridgeText(sd_worker.ips)
    /\ UNCHANGED <<notSettings, current, s_username, btn_disabled, sd_worker,
                   sv_worker, n_saves, n_discovers, back_timers, worker_wrote>>

\* the event loop runs setattr(lbl, "text", f"Discover error: {e}")
RunDiscoverError ==
    /\ NextCallback("discover_error")
    /\ clock' = Tail(clock)
    /\ s_lbl' = "Discover error"
    /\ UNCHANGED <<notSettings, current, s_bridge_ip, s_username, btn_disabled,
                   sd_worker, sv_worker, n_saves, n_discovers, back_timers,
                   worker_wrote>>

\* the event loop runs setattr(btn, "disabled", False)
RunDiscoverEnable ==
    /\ NextCallback("discover_enable")
    /\ clock' = Tail(clock)
    /\ btn_disabled' = FALSE
    /\ UNCHANGED <<notSettings, current, s_bridge_ip, s_username, s_lbl,
                   sd_worker, sv_worker, n_saves, n_discovers, back_timers,
                   worker_wrote>>

\* save(), up to the start of the thread: without an address it only sets
\* the label
Save ==
    /\ current = "settings"
    /\ n_saves < MaxSaveCalls
    /\ n_saves' = n_saves + 1
    /\ IF Strip(s_bridge_ip) = ""
       THEN /\ s_lbl' = "Bridge IP is required"
            /\ UNCHANGED sv_worker
       ELSE /\ sv_worker' = [sv_worker EXCEPT ![n_saves + 1] =
                                [NoSave EXCEPT !.pc = "start",
                                                !.ip = Strip(s_bridge_ip),
                                                !.user = Strip(s_username)]]
            /\ UNCHANGED s_lbl
    /\ UNCHANGED <<notSettings, clock, current, s_bridge_ip, s_username,
                   btn_disabled, sd_worker, n_discovers, back_timers,
                   worker_wrote>>

\* work() of save: "if not user:" the pairing text is scheduled and
\* create_user follows, else save_config follows
SaveBegin(i) ==
    /\ sv_worker[i].pc = "start"
    /\ IF sv_worker[i].user = ""
       THEN /\ clock' = Schedule("save_pairing", i)
            /\ sv_worker' = [sv_worker EXCEPT ![i].pc = "create_user",
                                              ![i].create_user = "called"]
       ELSE /\ UNCHANGED clock
            /\ sv_worker' = [sv_worker EXCEPT ![i].pc = "save_config",
                                              ![i].user_to_save = sv_worker[i].user,
                                              ![i].save_config = "called"]
    /\ UNCHANGED <<notSettings, current, s_bridge_ip, s_username, s_lbl,
                   btn_disabled, sd_worker, n_saves, n_discovers, back_timers,
                   worker_wrote>>

\* work() of save: create_user(ip) returned new_user;
\* "self.username = new_user" is executed by the worker thread
SavePaired(i, new_user) ==
    /\ sv_worker[i].pc = "create_user"
    /\ s_username' = new_user
    /\ worker_wrote' = worker_wrote \cup {"username"}
    /\ sv_worker' = [sv_worker EXCEPT ![i].pc = "save_config",
                                      ![i].user_to_save = new_user,
                                      ![i].create_user = "returned",
                                      ![i].save_config = "called"]
    /\ UNCHANGED <<notSettings, clock, current, s_bridge_ip, s_lbl,
                   btn_disabled, sd_worker, n_saves, n_discovers, back_timers>>

\* work() of save that goes on to save_config when create_user raised
SaveSwallowsPairing(i) ==
    /\ sv_worker[i].pc = "create_user"
    /\ sv_worker' = [sv_worker EXCEPT ![i].pc = "save_config",
                                      ![i].create_user = "raised",
                                      ![i].save_config = "called"]
    /\ UNCHANGED <<notSettings, clock, current, s_bridge_ip, s_username, s_lbl,
                   btn_disabled, sd_worker, n_saves, n_discovers, back_timers,
                   worker_wrote>>

\* work() of save: create_user or save_config raised; the error text is
\* scheduled
SaveRaises(i) ==
    /\ sv_worker[i].pc \in {"create_user", "save_config"}
    /\ sv_worker' =
           [sv_worker EXCEPT ![i] =
               IF sv_worker[i].pc = "create_user"
               THEN [@ EXCEPT !.pc = "done", !.create_user = "raised"]
               ELSE [@ EXCEPT !.pc = "done", !.save_config = "raised"]]
    /\ clock' = Schedule("save_error", i)
    /\ UNCHANGED <<notSettings, current, s_bridge_ip, s_username, s_lbl,
                   btn_disabled, sd_worker, n_saves, n_discovers, back_timers,
                   worker_wrote>>

\* work() of save: save_config returned; "Saved. Returning" is scheduled and
\* go_back is scheduled one second ahead
SaveStored(i) ==
    /\ sv_worker[i].pc = "save_config"
    /\ sv_worker' = [sv_worker EXCEPT ![i].pc = "done",
                                      ![i].save_config = "returned"]
    /\ clock' = Schedule("save_saved", i)
    /\ back_timers' = back_timers + 1
    /\ UNCHANGED <<notSettings, current, s_bridge_ip, s_username, s_lbl,
                   btn_disabled, sd_worker, n_saves, n_discovers, worker_wrote>>

\* the text a callback of save puts into the label
SaveText(cb) ==
    IF cb = "save_pairing" THEN "Pairing, press link button"
    ELSE IF cb = "save_saved" THEN "Saved. Returning"
    ELSE "Save error"

\* the event loop runs one of the setattr(lbl, "text", ...) of save
RunSaveLabel(cb) ==
    /\ NextCallback(cb)
    /\ clock' = Tail(clock)
    /\ s_lbl' = SaveText(cb)
    /\ UNCHANGED <<notSettings, current, s_bridge_ip, s_username, btn_disabled,
                   sd_worker, sv_worker, n_saves, n_discovers, back_timers,
                   worker_wrote>>

\* a second has passed: go_back sets manager.current = "main"
SettingsGoBack ==
    /\ back_timers > 0
    /\ back_timers' = back_timers - 1
    /\ current' = "main"
    /\ UNCHANGED <<notSettings, clock, s_bridge_ip, s_username, s_lbl,
                   btn_disabled, sd_worker, sv_worker, n_saves, n_discovers,
                   worker_wrote>>

NextSettings ==
    \/ \E ip \in IpTexts, user \in UserTexts : SettingsOnPreEnter(ip, user)
    \/ Discover
    \/ \E found \in Discovered : DiscoverFirst(found)
    \/ \E found \in Discovered : DiscoverSecond(found)
    \/ DiscoverRaises
    \/ DiscoverFinally
    \/ RunDiscoverAssign
    \/ RunDiscoverError
    \/ RunDiscoverEnable
    \/ Save
    \/ \E i \in SaveIds : SaveBegin(i)
    \/ \E i \in SaveIds : SavePaired(i, "newuser")
    \/ \E i \in SaveIds : SaveRaises(i)
    \/ \E i \in SaveIds : SaveStored(i)
    \/ \E cb \in {"save_pairing", "save_saved", "save_error"} : RunSaveLabel(cb)
    \/ SettingsGoBack

----------------------------------------------------------------------------
(* src/myapp/hue.py and src/hue.py: save_config, load_config and the       *)
(* operations, which build their URL from the loaded configuration.        *)
(* save_config runs in the thread SettingsScreen.save starts; every        *)
(* operation runs in a thread of a screen or a tile.                       *)

\* the two versions of the bridge client: src/myapp/hue.py and src/hue.py
Impls == {"myapp", "src"}

EmptyConfig == [bridge_ip |-> "", username |-> ""]
\* the configurations save_config is called with
ConfigValues == {[bridge_ip |-> "10.0.0.5", username |-> "u1"],
                 [bridge_ip |-> "10.0.0.9", username |-> "u2"]}
\* the environments: each variable set or not
Envs == {[bridge_ip |-> i, username |-> u] : i \in {"", "10.0.0.7"}, u \in {"", "u0"}}

\* what CONFIG_PATH can hold: no file, a file of zero bytes (just opened for
\* writing), a file that is unreadable or not a JSON object, or the JSON
\* text save_config wrote for a configuration
FileAbsent    == [kind |-> "absent", value |-> EmptyConfig]
FileTruncated == [kind |-> "truncated", value |-> EmptyConfig]
FileCorrupt   == [kind |-> "corrupt", value |-> EmptyConfig]
FileJson(v)   == [kind |-> "json", value |-> v]

\* the operations, with the method and path of the first request each makes
OpRequest ==
    [list_lights_detailed          |-> <<"GET", "lights">>,
     list_rooms_detailed           |-> <<"GET", "groups">>,
     list_lights_detailed_for_room |-> <<"GET", "groups/id">>,
     set_on                        |-> <<"PUT", "lights/id/state">>,
     set_brightness                |-> <<"PUT", "lights/id/state">>,
     set_color_hs                  |-> <<"PUT", "lights/id/state">>,
     set_room_on                   |-> <<"PUT", "groups/id/action">>,
     set_room_brightness           |-> <<"PUT", "groups/id/action">>,
     set_room_color_hs             |-> <<"PUT", "groups/id/action">>,
     light_is_on                   |-> <<"GET", "lights/id">>,
     room_is_on                    |-> <<"GET", "groups/id">>]

\* src/hue.py has the list and set operations only
Operations(impl) ==
    IF impl = "myapp"
    THEN DOMAIN OpRequest
    ELSE DOMAIN OpRequest \ {"list_lights_detailed_for_room", "light_is_on", "room_is_on"}

\* _api_url(*parts) with the loaded cfg: the request handed to _session
ApiUrl(cfg, name) ==
    [method |-> OpRequest[name][1], host |-> cfg.bridge_ip,
     username |-> cfg.username, path |-> OpRequest[name][2]]

NoOp == [pc |-> "idle", name |-> "none", impl |-> "myapp", had |-> FALSE,
         cfg |-> EmptyConfig, outcome |-> "none", error |-> ""]

\* no configuration is stored and no operation runs: the other specifications
IdleConfig ==
    /\ cfg_file = FileAbsent
    /\ env = EmptyConfig
    /\ cfg_stored = {}
    /\ saver = [pc |-> "idle", new |-> EmptyConfig, n |-> 0]
    /\ cfg_op = NoOp
    /\ cfg_requests = <<>>

\* any stored configuration and any environment
InitConfig ==
    /\ cfg_file \in {FileAbsent, FileCorrupt} \cup {FileJson(v) : v \in ConfigValues}
    /\ env \in Envs
    /\ cfg_stored = IF cfg_file.kind = "json" THEN {cfg_file.value} ELSE {}
    /\ saver = [pc |-> "idle", new |-> EmptyConfig, n |-> 0]
    /\ cfg_op = NoOp
    /\ cfg_requests = <<>>

\* save_config(v.bridge_ip, v.username): write_text opens CONFIG_PATH for
\* writing, which creates or truncates it
SaveStart(v) ==
    /\ saver.pc = "idle"
    /\ saver.n < MaxSaves
    /\ saver' = [pc |-> "writing", new |-> v, n |-> saver.n + 1]
    /\ cfg_file' = FileTruncated
    /\ UNCHANGED <<notConfig, env, cfg_stored, cfg_op, cfg_requests>>

\* write_text writes json.dumps(...) and closes the file
SaveWrite ==
    /\ saver.pc = "writing"
    /\ cfg_file' = FileJson(saver.new)
    /\ cfg_stored' = cfg_stored \cup {saver.new}
    /\ saver' = [saver EXCEPT !.pc = "idle"]
    /\ UNCHANGED <<notConfig, env, cfg_op, cfg_requests>>

\* a thread calls load_config itself or an operation, which calls it first
Invoke(name, impl) ==
    /\ cfg_op.pc = "idle"
    /\ cfg_op' = [cfg_op EXCEPT !.pc = "exists", !.name = name, !.impl = impl,
                        !.had = (cfg_stored # {})]
    /\ UNCHANGED <<notConfig, cfg_file, env, cfg_stored, saver, cfg_requests>>

\* load_config when CONFIG_PATH does not exist: src/myapp/hue.py takes the
\* environment values or ""; src/hue.py takes them when both are set and
\* raises RuntimeError("Hue config missing. ...") otherwise
LoadFromEnv(impl) ==
    IF impl = "myapp" \/ (env.bridge_ip # "" /\ env.username # "")
    THEN [outcome |-> "returned", cfg |-> env, error |-> ""]
    ELSE [outcome |-> "raised", cfg |-> EmptyConfig, error |-> "Hue config missing"]

\* load_config when read_text gave content: json.loads fails on anything but
\* the JSON text; src/myapp/hue.py catches that and falls back to the
\* environment, src/hue.py lets it propagate
LoadFromFile(impl, content) ==
    IF content.kind = "json"
    THEN [outcome |-> "returned", cfg |-> content.value, error |-> ""]
    ELSE IF impl = "myapp"
         THEN [outcome |-> "returned", cfg |-> env, error |-> ""]
         ELSE [outcome |-> "raised", cfg |-> EmptyConfig, error |-> "JSONDecodeError"]

\* load_config ended with r: load_config itself is done; an operation goes on
\* to its request unless load_config raised
Loaded(r) ==
    IF r.outcome = "raised" \/ cfg_op.name = "load_config"
    THEN [cfg_op EXCEPT !.pc = "done", !.cfg = r.cfg, !.outcome = r.outcome,
                    !.error = r.error]
    ELSE [cfg_op EXCEPT !.pc = "request", !.cfg = r.cfg]

\* load_config: CONFIG_PATH.exists()
LoadExists ==
    /\ cfg_op.pc = "exists"
    /\ cfg_op' = IF cfg_file.kind # "absent"
             THEN [cfg_op EXCEPT !.pc = "read"]
             ELSE Loaded(LoadFromEnv(cfg_op.impl))
    /\ UNCHANGED <<notConfig, cfg_file, env, cfg_stored, saver, cfg_requests>>

\* load_config: json.loads(CONFIG_PATH.read_text())
LoadRead ==
    /\ cfg_op.pc = "read"
    /\ cfg_op' = Loaded(LoadFromFile(cfg_op.impl, cfg_file))
    /\ UNCHANGED <<notConfig, cfg_file, env, cfg_stored, saver, cfg_requests>>

\* how a call on _session can end: with a response, or with an exception of
\* requests; without a host there is no response
SessionOutcomes(url) ==
    IF url.host = ""
    THEN {[outcome |-> "raised", error |-> "RequestException"]}
    ELSE {[outcome |-> "returned", error |-> ""],
          [outcome |-> "raised", error |-> "RequestException"]}

\* the operation calls _session.get / _session.put with _api_url(...)
Request ==
    /\ cfg_op.pc = "request"
    /\ cfg_requests' = Append(cfg_requests, ApiUrl(cfg_op.cfg, cfg_op.name))
    /\ \E r \in SessionOutcomes(ApiUrl(cfg_op.cfg, cfg_op.name)) :
           cfg_op' = [cfg_op EXCEPT !.pc = "done", !.outcome = r.outcome,
                            !.error = r.error]
    /\ UNCHANGED <<notConfig, cfg_file, env, cfg_stored, saver>>

NextConfig ==
    \/ \E v \in ConfigValues : SaveStart(v)
    \/ SaveWrite
    \/ \E impl \in Impls : Invoke("load_config", impl)
    \/ \E impl \in Impls : \E name \in Operations(impl) : Invoke(name, impl)
    \/ LoadExists
    \/ LoadRead
    \/ Request

----------------------------------------------------------------------------
(* src/myapp/hue.py discover_bridges and its four strategies.              *)

\* bridge addresses 10.0.0.5, 10.0.0.9 and 10.0.0.10, each written as the
\* digits of its last part: Python orders the strings character by character
Addrs == {<<5>>, <<9>>, <<1, 0>>}

\* a < b for Python strings
RECURSIVE StrLess(_, _)
StrLess(a, b) ==
    IF b = <<>> THEN FALSE
    ELSE IF a = <<>> THEN TRUE
    ELSE IF Head(a) = Head(b) THEN StrLess(Tail(a), Tail(b))
    ELSE Head(a) < Head(b)

\* set(list)
Range(list) == {list[i] : i \in 1..Len(list)}

\* sorted(S)
RECURSIVE Sorted(_)
Sorted(S) ==
    IF S = {} THEN <<>>
    ELSE LET m == CHOOSE x \in S : \A y \in S \ {x} : StrLess(x, y)
         IN  <<m>> \o Sorted(S \ {m})

\* the list handed back without set() and sorted()
AsCollected(list) == list

\* "return sorted(set(ips))"
DiscoverResult(list) == Sorted(Range(list))

\* lists of at most MaxFound addresses; without repetition when distinct
Lists(distinct) ==
    {l \in UNION {[1..n -> Addrs] : n \in 0..MaxFound} :
        distinct => \A i, j \in 1..Len(l) : i # j => l[i] # l[j]}

\* the strategies in the order discover_bridges calls them
Strategies == <<"meethue", "ssdp", "mdns", "sweep">>

\* what a strategy can hand back.  _discover_via_meethue: the addresses of
\* the cloud's answer, as listed; _discover_via_ssdp: list(found_ips), a set
\* in any order; _resolve_mdns_default: one address or None;
\* _discover_via_tcp_sweep: sorted(hits)
Found(s) ==
    CASE s = "meethue" -> Lists(FALSE)
      [] s = "ssdp"    -> Lists(TRUE)
      [] s = "mdns"    -> {<<>>} \cup {<<a>> : a \in Addrs}
      [] s = "sweep"   -> {Sorted(S) : S \in SUBSET Addrs}

\* how a strategy call ends: it returns a list or raises an exception
Outcomes(s) ==
    {[raised |-> FALSE, found |-> l] : l \in Found(s)}
    \cup {[raised |-> TRUE, found |-> <<>>]}

\* try: ips.extend(strategy()) / except Exception: pass, with a variant in
\* which a failure also loses what was collected before
ExtendedOrLost(list, o) == IF o.raised THEN <<>> ELSE list \o o.found
Extended(list, o) == IF o.raised THEN list ELSE list \o o.found

NoStrategy == [state |-> "waiting", found |-> <<>>]

IdleDiscover ==
    /\ disc_pc = "idle"
    /\ skip_cloud = FALSE
    /\ ips = <<>>
    /\ disc_result = <<>>
    /\ strat = [s \in Range(Strategies) |-> NoStrategy]

\* strategy number n starts; past the last one the return statement is next
Started(n, st) ==
    IF n > Len(Strategies) THEN st
    ELSE [st EXCEPT ![Strategies[n]].state = "running"]

StrategyPc(n) == IF n > Len(Strategies) THEN "return" ELSE Strategies[n]

\* discover_bridges(skip_cloud) is called: ips = [], and the first strategy
\* starts, _discover_via_meethue unless skip_cloud
DiscoverBridges(skip) ==
    /\ disc_pc = "idle"
    /\ skip_cloud' = skip
    /\ ips' = <<>>
    /\ LET first == IF skip THEN 2 ELSE 1
           st == IF skip THEN [strat EXCEPT !["meethue"].state = "skipped"]
                         ELSE strat
       IN  /\ disc_pc' = StrategyPc(first)
           /\ strat' = Started(first, st)
    /\ UNCHANGED <<notDiscover, disc_result>>

\* strategy number n ends with outcome o, and the next one starts
StrategyEnds(n, o) ==
    /\ disc_pc = Strategies[n]
    /\ ips' = Extended(ips, o)
    /\ disc_pc' = StrategyPc(n + 1)
    /\ strat' = Started(n + 1,
                   [strat EXCEPT ![Strategies[n]] =
                       [state |-> IF o.raised THEN "raised" ELSE "returned",
                        found |-> o.found]])
    /\ UNCHANGED <<notDiscover, skip_cloud, disc_result>>

\* _discover_via_meethue() returns or raises
Meethue(o) == StrategyEnds(1, o)
\* _discover_via_ssdp(timeout=1.5, tries=3) returns or raises
Ssdp(o) == StrategyEnds(2, o)
\* _resolve_mdns_default() returns or raises
Mdns(o) == StrategyEnds(3, o)
\* _discover_via_tcp_sweep() returns or raises
Sweep(o) == StrategyEnds(4, o)

\* return sorted(set(ips))
DiscoverReturn ==
    /\ disc_pc = "return"
    /\ disc_result' = DiscoverResult(ips)
    /\ disc_pc' = "done"
    /\ UNCHANGED <<notDiscover, skip_cloud, ips, strat>>

NextDiscover ==
    \/ \E skip \in BOOLEAN : DiscoverBridges(skip)
    \/ \E o \in Outcomes("meethue") : Meethue(o)
    \/ \E o \in Outcomes("ssdp") : Ssdp(o)
    \/ \E o \in Outcomes("mdns") : Mdns(o)
    \/ \E o \in Outcomes("sweep") : Sweep(o)
    \/ DiscoverReturn

----------------------------------------------------------------------------
(* src/myapp/hue.py _discover_via_tcp_sweep: for each prefix a              *)
(* ThreadPoolExecutor(max_workers) probes the hosts of the /24.  The model  *)
(* has NumHosts hosts per prefix instead of 254 and MaxWorkers workers     *)
(* instead of 32.                                                          *)

\* the hosts of one prefix: range(1, 255)
Hosts == 1..NumHosts

\* _primary_lan_prefixes: the prefix of the local address, or the three
\* common private prefixes when it cannot be found
PrimaryLanPrefixes == {1, FallbackPrefixes}

IdleSweep ==
    /\ sw_pc = "idle"
    /\ sw_prefixes = 0
    /\ sw_prefix = 0
    /\ fut = [h \in Hosts |-> "none"]
    /\ sw_threads = 0
    /\ sw_probes = [p \in 1..FallbackPrefixes |-> [h \in Hosts |-> 0]]
    /\ hits = {}
    /\ sw_result = {}

\* the probes that are running in a worker thread of the pool
InFlight == {h \in Hosts : fut[h] \in {"running hit", "running miss"}}

\* the candidates that wait in the pool's work queue
Queued == {h \in Hosts : fut[h] = "queued"}

\* the pool without its limit: a thread for every work item
UnboundedFanOut == TRUE

\* a worker thread of the pool is free to take a work item
WorkerFree == Cardinality(InFlight) < sw_threads

\* _discover_via_tcp_sweep() is called: prefixes = _primary_lan_prefixes(),
\* hits = set(), and the pool for the first prefix is created
DiscoverViaTcpSweep(n) ==
    /\ sw_pc = "idle"
    /\ sw_prefixes' = n
    /\ sw_prefix' = 1
    /\ sw_pc' = "submit"
    /\ UNCHANGED <<notSweep, fut, sw_threads, sw_probes, hits, sw_result>>

\* ex.submit(_probe_bridge_ip, ip, per_ip_timeout) for the next candidate:
\* the work item is queued, and the pool starts a thread while it has fewer
\* than max_workers
Submit ==
    /\ sw_pc = "submit"
    /\ LET h == CHOOSE x \in Hosts :
                    fut[x] = "none" /\ \A y \in Hosts : y < x => fut[y] # "none"
       IN  /\ fut' = [fut EXCEPT ![h] = "queued"]
           /\ sw_pc' = IF h = NumHosts THEN "collect" ELSE "submit"
    /\ sw_threads' = IF sw_threads < MaxWorkers THEN sw_threads + 1 ELSE sw_threads
    /\ UNCHANGED <<notSweep, sw_prefixes, sw_prefix, sw_probes, hits, sw_result>>

\* a free worker thread takes the oldest work item and calls
\* _probe_bridge_ip, whose GET finds a bridge at the address or not
ProbeStarts(found) ==
    /\ WorkerFree
    /\ Queued # {}
    /\ LET h == CHOOSE x \in Queued : \A y \in Queued : x <= y
       IN  /\ fut' = [fut EXCEPT ![h] = IF found THEN "running hit" ELSE "running miss"]
           /\ sw_probes' = [sw_probes EXCEPT ![sw_prefix][h] = @ + 1]
    /\ UNCHANGED <<notSweep, sw_pc, sw_prefixes, sw_prefix, sw_threads, hits,
                   sw_result>>

\* _probe_bridge_ip returns, at the latest when its timeout has passed: the
\* address or None
ProbeEnds(h) ==
    /\ h \in InFlight
    /\ fut' = [fut EXCEPT ![h] = IF fut[h] = "running hit" THEN "hit" ELSE "miss"]
    /\ UNCHANGED <<notSweep, sw_pc, sw_prefixes, sw_prefix, sw_threads,
                   sw_probes, hits, sw_result>>

\* for fut in as_completed(futs): ip = fut.result(); if ip: hits.add(ip)
Collect(h) ==
    /\ sw_pc = "collect"
    /\ fut[h] \in {"hit", "miss"}
    /\ hits' = IF fut[h] = "hit" THEN hits \cup {<<sw_prefix, h>>} ELSE hits
    /\ fut' = [fut EXCEPT ![h] = "collected"]
    /\ UNCHANGED <<notSweep, sw_pc, sw_prefixes, sw_prefix, sw_threads,
                   sw_probes, sw_result>>

\* every future was collected: the with block ends, the pool shuts down,
\* and the loop goes on to the next prefix or the function returns
\* sorted(hits)
PoolExit ==
    /\ sw_pc = "collect"
    /\ \A h \in Hosts : fut[h] = "collected"
    /\ fut' = [h \in Hosts |-> "none"]
    /\ sw_threads' = 0
    /\ IF sw_prefix < sw_prefixes
       THEN /\ sw_prefix' = sw_prefix + 1
            /\ sw_pc' = "submit"
            /\ UNCHANGED sw_result
       ELSE /\ sw_pc' = "done"
            /\ sw_result' = hits
            /\ UNCHANGED sw_prefix
    /\ UNCHANGED <<notSweep, sw_prefixes, sw_probes, hits>>

NextSweep ==
    \/ \E n \in PrimaryLanPrefixes : DiscoverViaTcpSweep(n)
    \/ Submit
    \/ \E found \in BOOLEAN : ProbeStarts(found)
    \/ \E h \in Hosts : ProbeEnds(h)
    \/ \E h \in Hosts : Collect(h)
    \/ PoolExit

----------------------------------------------------------------------------
(* src/myapp/hue.py and src/hue.py: what the client makes of the bridge's   *)
(* answers: _raise_if_error, list_rooms_detailed and create_user.          *)

NoError == [type |-> 0, description |-> "", address |-> ""]
\* error contents the bridge sends: 101 is "link button not pressed"
ErrorContents ==
    {[type |-> 101, description |-> "link button not pressed", address |-> ""],
     [type |-> 1, description |-> "unauthorized user", address |-> "/groups"]}
LinkButtonError == [type |-> 101, description |-> "link button not pressed", address |-> ""]

\* the entries of a list answer: {"success": {"username": ...}},
\* {"success": {...}} without a username, {"error": {...}}, and an entry
\* that is no object
SuccessItem(u) == [key |-> "success", error |-> NoError, username |-> u]
ErrorItem(e)   == [key |-> "error", error |-> e, username |-> ""]
OtherItem      == [key |-> "other", error |-> NoError, username |-> ""]
Items ==
    {SuccessItem("newuser"), SuccessItem(""), OtherItem}
    \cup {ErrorItem(e) : e \in ErrorContents}

\* the groups the bridge knows: id -> the group's type, "" when it has none
GroupTypes == {"Room", "Zone", "LightGroup", ""}
GroupData == UNION {[S -> GroupTypes] : S \in SUBSET ItemIds}

\* the JSON answers: a list of entries, a single {"error": ...} object, and
\* the object of a resource (here the groups)
ListResp(items) == [shape |-> "list", items |-> items, error |-> NoError,
                    groups |-> <<>>]
DictError(e)    == [shape |-> "dict_error", items |-> <<>>, error |-> e,
                    groups |-> <<>>]
DictData(g)     == [shape |-> "dict", items |-> <<>>, error |-> NoError,
                    groups |-> g]
NoResp          == [shape |-> "none", items |-> <<>>, error |-> NoError,
                    groups |-> <<>>]

ListResps == {ListResp(l) : l \in UNION {[1..n -> Items] : n \in 0..MaxItems}}
Responses ==
    ListResps \cup {DictError(e) : e \in ErrorContents}
              \cup {DictData(g) : g \in GroupData}

\* the text of an exception: f"Hue error {type}: {description} ({address})",
\* another text, and the "Pairing failed: " create_user puts before either
NoMessage == [prefix |-> "", text |-> "", error |-> NoError]
HueErrorMessage(e) == [prefix |-> "", text |-> "Hue error", error |-> e]
TextMessage(t) == [prefix |-> "", text |-> t, error |-> NoError]

\* how a call ends: with a value or with an exception of a class and text
Returns(resp, found, u) ==
    [raised |-> FALSE, kind |-> "", message |-> NoMessage, resp |-> resp,
     rooms |-> found, username |-> u]
Raises(kind, message) ==
    [raised |-> TRUE, kind |-> kind, message |-> message, resp |-> NoResp,
     rooms |-> <<>>, username |-> ""]

\* the first {"error": ...} entry of a list, 0 if there is none
FirstError(items) ==
    LET at == {i \in 1..Len(items) : items[i].key = "error"}
    IN  IF at = {} THEN 0 ELSE CHOOSE i \in at : \A j \in at : i <= j

\* _raise_if_error(resp_json): src/myapp/hue.py looks at a list and at a
\* single object, src/hue.py at a list only
RaiseIfError(impl, resp) ==
    IF resp.shape = "list" /\ FirstError(resp.items) # 0
    THEN Raises("RuntimeError", HueErrorMessage(resp.items[FirstError(resp.items)].error))
    ELSE IF resp.shape = "dict_error" /\ impl = "myapp"
         THEN Raises("RuntimeError", HueErrorMessage(resp.error))
         ELSE Returns(resp, <<>>, "")

\* the loop of list_rooms_detailed without its filter
AnyGroup(type) == TRUE

\* "if info.get('type') != 'Room': continue"
IsRoom(type) == type = "Room"

\* the entry of a room whose group has no state and no action: on is False
\* and bri_raw is 254
RoomEntry == [on |-> FALSE, bri |-> ToPercent(254), supports_color |-> FALSE]

\* list_rooms_detailed with the bridge's answer resp: _raise_if_error, then
\* the loop over data.items().  A list has no items(); the object of an
\* error that was not raised has the one key "error", which is no room
ListRooms(impl, resp) ==
    IF RaiseIfError(impl, resp).raised THEN RaiseIfError(impl, resp)
    ELSE IF resp.shape = "list" THEN Raises("AttributeError", TextMessage("items"))
    ELSE Returns(NoResp,
                 [g \in {x \in DOMAIN resp.groups : IsRoom(resp.groups[x])}
                     |-> RoomEntry], "")

\* the first {"success": {"username": ...}} entry of a list, 0 if none
FirstUsername(items) ==
    LET at == {i \in 1..Len(items) :
                   items[i].key = "success" /\ items[i].username # ""}
    IN  IF at = {} THEN 0 ELSE CHOOSE i \in at : \A j \in at : i <= j

\* the entry at which "item.get" fails: the first that is no object, when no
\* username was found before it
FailsAt(items) ==
    \E i \in 1..Len(items) :
        /\ items[i].key = "other"
        /\ FirstUsername(items) = 0 \/ i < FirstUsername(items)

\* "except Exception as e: raise RuntimeError(f'Pairing failed: {e}')"
PairingFailed(m) == Raises("RuntimeError", [m EXCEPT !.prefix = "Pairing failed"])

\* create_user(bridge_ip) when the POST ended as net says, with answer resp
CreateUserResult(net, resp) ==
    IF net = "fail" THEN PairingFailed(TextMessage("ConnectionError"))
    ELSE IF RaiseIfError("myapp", resp).raised
         THEN PairingFailed(RaiseIfError("myapp", resp).message)
    ELSE IF resp.shape = "list" /\ FailsAt(resp.items)
         THEN PairingFailed(TextMessage("AttributeError"))
    ELSE IF resp.shape = "list" /\ FirstUsername(resp.items) # 0
         THEN Returns(NoResp, <<>>, resp.items[FirstUsername(resp.items)].username)
    ELSE PairingFailed(TextMessage("Unexpected Hue response creating user."))

\* answers to POST /api: the new username, the link-button error, and what
\* a device that is no Hue bridge may send
PairingAnswers ==
    {ListResp(<<SuccessItem("newuser")>>), ListResp(<<ErrorItem(LinkButtonError)>>),
     ListResp(<<>>), ListResp(<<SuccessItem("")>>), ListResp(<<OtherItem>>),
     DictData(<<>>)}
\* what can come back at the moment: the bridge sends the link-button error
\* until the button was pressed and the new username after that
BridgeAnswers ==
    PairingAnswers \ {IF link_button THEN ListResp(<<ErrorItem(LinkButtonError)>>)
                                     ELSE ListResp(<<SuccessItem("newuser")>>)}

NoParse == [fn |-> "none", impl |-> "myapp", net |-> "ok", resp |-> NoResp]

IdleParse ==
    /\ link_button = FALSE
    /\ p_call = NoParse
    /\ p_out = Returns(NoResp, <<>>, "")
    /\ refused = FALSE

\* the user presses the link button of the bridge
PressLinkButton ==
    /\ ~link_button
    /\ link_button' = TRUE
    /\ UNCHANGED <<notParse, p_call, p_out, refused>>

\* _raise_if_error(resp), as the first call of the run
CallRaiseIfError(impl, resp) ==
    /\ p_call = NoParse
    /\ p_call' = [fn |-> "_raise_if_error", impl |-> impl, net |-> "ok", resp |-> resp]
    /\ p_out' = RaiseIfError(impl, resp)
    /\ UNCHANGED <<notParse, link_button, refused>>

\* list_rooms_detailed(), the bridge answering resp, as the first call of
\* the run
ListRoomsDetailed(impl, resp) ==
    /\ p_call = NoParse
    /\ p_call' = [fn |-> "list_rooms_detailed", impl |-> impl, net |-> "ok", resp |-> resp]
    /\ p_out' = ListRooms(impl, resp)
    /\ UNCHANGED <<notParse, link_button, refused>>

\* create_user(bridge_ip)
CreateUser(net, resp) ==
    /\ resp \in BridgeAnswers
    /\ p_call' = [fn |-> "create_user", impl |-> "myapp", net |-> net, resp |-> resp]
    /\ p_out' = CreateUserResult(net, resp)
    /\ refused' = (refused \/ (net = "ok" /\ resp = ListResp(<<ErrorItem(LinkButtonError)>>)))
    /\ UNCHANGED <<notParse, link_button>>

NextParse ==
    \/ PressLinkButton
    \/ \E impl \in Impls, resp \in Responses : CallRaiseIfError(impl, resp)
    \/ \E impl \in Impls, resp \in Responses : ListRoomsDetailed(impl, resp)
    \/ \E net \in {"ok", "fail"}, resp \in PairingAnswers : CreateUser(net, resp)

----------------------------------------------------------------------------
(* src/myapp/hue.py and src/hue.py: the entry a listing function makes of  *)
(* one light or group record, and room_is_on.                              *)

\* what a field that goes through bool() holds: the key is absent, or its
\* value is null, true or false
Flags == {"absent", "null", "true", "false"}

\* what "bri" holds: the key is absent, null, a string, true (a bool is an
\* int in Python: True counts as 1), or a number
NoBri == [kind |-> "absent", val |-> 0]
BriNumber(b) == [kind |-> "num", val |-> b]
BriRaws ==
    {NoBri, [kind |-> "null", val |-> 0], [kind |-> "text", val |-> 0],
     [kind |-> "bool", val |-> 1]}
    \cup {BriNumber(b) : b \in 0..MaxBri}

\* a group: state.any_on, state.all_on, action.on and action.bri;
\* a light: state.on and state.bri
GroupInfos == [any_on : Flags, all_on : Flags, on : Flags, bri : BriRaws]
LightInfos == [any_on : {"absent"}, all_on : {"absent"}, on : Flags, bri : BriRaws]

\* bool(d.get(key, False)): False for an absent key, for null and for false
Truthy(f) == f = "true"

\* list_rooms_detailed of src/hue.py: "on = bool(act.get('on', False))"
CommandedOn(info) == Truthy(info.on)

\* "st.get('any_on', st.get('all_on', act.get('on', False)))": get returns the
\* value of a key that is present, also when that value is null
ActualOn(info) ==
    IF info.any_on # "absent" THEN Truthy(info.any_on)
    ELSE IF info.all_on # "absent" THEN Truthy(info.all_on)
    ELSE Truthy(info.on)

\* on of list_rooms_detailed
RoomOn(impl, info) == IF impl = "myapp" THEN ActualOn(info) ELSE CommandedOn(info)

\* room_is_on: "if 'any_on' in st: ... if 'all_on' in st: ..." and the
\* fallback to action.on
RoomIsOnResult(info) ==
    IF info.any_on # "absent" THEN Truthy(info.any_on)
    ELSE IF info.all_on # "absent" THEN Truthy(info.all_on)
    ELSE Truthy(info.on)

\* "bri_raw = d.get('bri', 254)"
BriRaw(bri) == IF bri.kind = "absent" THEN BriNumber(MaxBri) ELSE bri

\* "isinstance(bri_raw, (int, float))"
IsNumber(raw) == raw.kind \in {"num", "bool"}

\* "int(round(bri_raw * 100 / 254)) if isinstance(bri_raw, (int, float))
\*  else (100 if on else 0)"
ListedBri(bri, on) ==
    IF IsNumber(BriRaw(bri)) THEN ToPercent(BriRaw(bri).val)
    ELSE IF on THEN 100 ELSE 0

Listings == {"list_lights_detailed", "list_lights_detailed_for_room",
             "list_lights_detailed_for", "list_rooms_detailed", "room_is_on"}
\* the listing functions each version has
ListingsOf(impl) ==
    IF impl = "myapp" THEN Listings
    ELSE {"list_lights_detailed", "list_rooms_detailed"}

ListCall(fn, impl, info) == [fn |-> fn, impl |-> impl, info |-> info]
NoListing == ListCall("none", "myapp",
                      [any_on |-> "absent", all_on |-> "absent",
                       on |-> "absent", bri |-> NoBri])
\* the calls: a function of a version, and the record the bridge sent
ListCalls ==
    {ListCall(fn, impl, info) :
        fn \in {"list_lights_detailed", "list_lights_detailed_for_room",
                "list_lights_detailed_for"},
        impl \in Impls, info \in LightInfos}
    \cup {ListCall(fn, impl, info) :
        fn \in {"list_rooms_detailed", "room_is_on"},
        impl \in Impls, info \in GroupInfos}

NoEntry == [done |-> FALSE, on |-> FALSE, bri |-> 0]
Entry(on, bri) == [done |-> TRUE, on |-> on, bri |-> bri]

\* light ids as the bridge's JSON has them: decimal strings
IdTexts == <<"1", "2", "3", "4">>
\* str(lid)
ToStr(i) == IdTexts[i]
\* int(x)
ToInt(t) == CHOOSE i \in 1..Len(IdTexts) : IdTexts[i] = t
LightIds == 1..NumLights
LightKeys == {ToStr(i) : i \in LightIds}

\* the records of the lights of a room: one that is on at full brightness,
\* one that is off and has no bri
RoomLightInfos ==
    {[any_on |-> "absent", all_on |-> "absent", on |-> "true", bri |-> BriNumber(MaxBri)],
     [any_on |-> "absent", all_on |-> "absent", on |-> "false", bri |-> NoBri]}

\* the group record of GET groups/<room_id>: its "lights" key, when present,
\* lists member ids, possibly more than once
Groups ==
    {[present |-> FALSE, ids |-> <<>>]}
    \cup {[present |-> TRUE, ids |-> m] :
             m \in UNION {[1..n -> LightKeys] : n \in 0..MaxMembers}}

\* the answer of GET lights: the records of the lights the bridge knows
LightSets == UNION {[K -> RoomLightInfos] : K \in SUBSET LightKeys}

\* a request returns data, returns an error envelope, or raises
Answers == {"ok", "error", "raise"}

RoomListCalls == [group : Groups, all_lights : LightSets,
                  first : Answers, second : Answers]
NoLights == [i \in {} |-> NoEntry]
RoomListOut(pc, n, out) == [pc |-> pc, requests |-> n, out |-> out]

IdleRoomList ==
    /\ rl_call = [group |-> [present |-> FALSE, ids |-> <<>>],
                  all_lights |-> [k \in {} |-> NoBri],
                  first |-> "ok", second |-> "ok"]
    /\ rl_out = RoomListOut("idle", 0, NoLights)

IdleList ==
    /\ ls_call = NoListing
    /\ ls_out = NoEntry
    /\ IdleRoomList

\* a thread is about to call one of the listing functions
InitList ==
    /\ ls_call \in {c \in ListCalls : c.fn \in ListingsOf(c.impl)}
    /\ ls_out = NoEntry
    /\ IdleRoomList

\* one entry of list_lights_detailed, list_lights_detailed_for_room or
\* list_lights_detailed_for: the loop body is the same in the three
ListLightsDetailed ==
    /\ ~ls_out.done
    /\ ls_call.fn \in {"list_lights_detailed", "list_lights_detailed_for_room",
                       "list_lights_detailed_for"}
    /\ ls_out' = Entry(Truthy(ls_call.info.on),
                       ListedBri(ls_call.info.bri, Truthy(ls_call.info.on)))
    /\ UNCHANGED <<notList, ls_call, rl_call, rl_out>>

\* one entry of list_rooms_detailed (the group is a Room)
ListRoomsEntry ==
    /\ ~ls_out.done
    /\ ls_call.fn = "list_rooms_detailed"
    /\ ls_out' = Entry(RoomOn(ls_call.impl, ls_call.info),
                       ListedBri(ls_call.info.bri, RoomOn(ls_call.impl, ls_call.info)))
    /\ UNCHANGED <<notList, ls_call, rl_call, rl_out>>

\* room_is_on(group_id), the bridge answering with the group info
RoomIsOn ==
    /\ ~ls_out.done
    /\ ls_call.fn = "room_is_on"
    /\ ls_out' = Entry(RoomIsOnResult(ls_call.info), 0)
    /\ UNCHANGED <<notList, ls_call, rl_call, rl_out>>

NextList == ListLightsDetailed \/ ListRoomsEntry \/ RoomIsOn

\* a thread is about to call list_lights_detailed_for_room
InitRoomList ==
    /\ ls_call = NoListing
    /\ ls_out = NoEntry
    /\ rl_call \in RoomListCalls
    /\ rl_out = RoomListOut("call", 0, NoLights)

\* every member id, whatever the full light set holds
Unfiltered(light_ids, all_lights) == {light_ids[i] : i \in DOMAIN light_ids}

\* "light_ids = [int(x) for x in group.get('lights', [])]"
LightIdsOf(group) ==
    IF group.present THEN [i \in DOMAIN group.ids |-> ToInt(group.ids[i])]
    ELSE <<>>

\* "for lid in light_ids: info = all_lights.get(str(lid)); if not info:
\* continue": the ids the loop makes an entry for
Selected(light_ids, all_lights) ==
    {lid \in {light_ids[i] : i \in DOMAIN light_ids} :
        ToStr(lid) \in DOMAIN all_lights}

\* the entry of one light: on and bri as in list_lights_detailed; an id
\* all_lights does not hold has the entry of get()'s None
LightEntry(all_lights, lid) ==
    IF ToStr(lid) \in DOMAIN all_lights
    THEN Entry(Truthy(all_lights[ToStr(lid)].on),
               ListedBri(all_lights[ToStr(lid)].bri,
                         Truthy(all_lights[ToStr(lid)].on)))
    ELSE NoEntry

\* the dictionary out after the loop
RoomLights(light_ids, all_lights) ==
    [lid \in Selected(light_ids, all_lights) |-> LightEntry(all_lights, lid)]

\* GET groups/<room_id>, _raise_if_error, and "if not light_ids: return {}"
RoomListFirst ==
    /\ rl_out.pc = "call"
    /\ rl_out' =
           IF rl_call.first # "ok" THEN RoomListOut("raised", 1, NoLights)
           ELSE IF LightIdsOf(rl_call.group) = <<>>
                THEN RoomListOut("returned", 1, NoLights)
                ELSE RoomListOut("lights", 1, NoLights)
    /\ UNCHANGED <<notList, ls_call, ls_out, rl_call>>

\* GET lights, _raise_if_error, the loop over light_ids and "return out"
RoomListSecond ==
    /\ rl_out.pc = "lights"
    /\ rl_out' =
           IF rl_call.second # "ok" THEN RoomListOut("raised", 2, NoLights)
           ELSE RoomListOut("returned", 2,
                            RoomLights(LightIdsOf(rl_call.group),
                                       rl_call.all_lights))
    /\ UNCHANGED <<notList, ls_call, ls_out, rl_call>>

NextRoomList == RoomListFirst \/ RoomListSecond

----------------------------------------------------------------------------
(* The specifications.                                                     *)

\* the parts of the bridge client with a specification of their own, at rest
IdleHue == IdleConfig /\ IdleDiscover /\ IdleSweep /\ IdleParse /\ IdleList

\* the screens after build(), before any input
IdleScreens ==
    /\ clock = <<>> /\ stopped = FALSE
    /\ InitRooms /\ InitLights /\ InitGrid /\ InitSettings

\* the bridge where a specification does not follow it
IdleBridge == bridge_on = FALSE

\* the application after build(), before any input
Init == IdleClient /\ IdleBridge /\ IdleScreens /\ InitTile /\ IdleHue

\* the application showing a tile of either kind, in any state a fetch gives it
InitTiles ==
    /\ IdleClient /\ IdleBridge /\ IdleScreens /\ IdleHue
    /\ \E kind \in Kinds, on \in BOOLEAN, bri \in SliderVals, color \in BOOLEAN :
           TileInit(kind, on, bri, color)

\* one call of the bridge client, its arguments drawn from the input sets
InitCall == InitClient /\ IdleBridge /\ IdleScreens /\ InitTile /\ IdleHue

\* the application showing a tile of either kind, in the state a fetch gave
\* it: the on-state the bridge holds
InitTileBridge ==
    /\ IdleClient /\ IdleScreens /\ IdleHue
    /\ \E kind \in Kinds, on \in BOOLEAN, bri \in SliderVals, color \in BOOLEAN :
           TileInit(kind, on, bri, color) /\ bridge_on = on

\* the application idle, as every specification of the bridge client has it
IdleApp == IdleClient /\ IdleBridge /\ IdleScreens /\ InitTile

\* threads call load_config, the operations and save_config
InitStore ==
    IdleApp /\ InitConfig /\ IdleDiscover /\ IdleSweep /\ IdleParse /\ IdleList

\* a thread calls discover_bridges
InitDiscover == IdleApp /\ IdleHue

\* a thread calls a listing function
InitEntries ==
    /\ IdleApp /\ IdleConfig /\ IdleDiscover /\ IdleSweep /\ IdleParse
    /\ InitList

\* a thread calls list_lights_detailed_for_room
InitRoomLights ==
    /\ IdleApp /\ IdleConfig /\ IdleDiscover /\ IdleSweep /\ IdleParse
    /\ InitRoomList

SpecClient == InitCall /\ [][NextClient]_vars
SpecRooms  == Init /\ [][NextRooms]_vars
SpecLights == Init /\ [][NextLights]_vars
SpecGrid   == Init /\ [][NextGrid]_vars
SpecTile   == InitTiles /\ [][NextTile]_vars
\* the tile together with the bridge, every command succeeding
SpecTileBridge == InitTileBridge /\ [][NextTileBridge]_vars
SpecSettings == Init /\ [][NextSettings]_vars
\* the clock advances: a pending commit timer fires
SpecSliderLive == Init /\ [][NextSlider]_vars /\ WF_vars(ClockAdvances)
\* every network call of the grid returns or times out, and the event loop
\* runs the callbacks it was handed
SpecGridLive == Init /\ [][NextGrid]_vars /\ WF_vars(GridProgress)
\* "python -m myapp" and src/main.py are two programs: a process runs the
\* rooms list of the one or the grid of the other, never both
MyappIdle == gen_rooms = 0
MainPyIdle == ~inited /\ gen = 0
NextFetches ==
    \/ MainPyIdle /\ NextRooms
    \/ MyappIdle /\ NextGrid
SpecFetches == Init /\ [][NextFetches]_vars
SpecConfig == InitStore /\ [][NextConfig]_vars
SpecDiscover == InitDiscover /\ [][NextDiscover]_vars
SpecParse == Init /\ [][NextParse]_vars
SpecList == InitEntries /\ [][NextList]_vars
SpecRoomList == InitRoomLights /\ [][NextRoomList]_vars
\* the pool's threads are scheduled and every probe ends within its timeout
SpecSweep == Init /\ [][NextSweep]_vars /\ WF_vars(NextSweep)

----------------------------------------------------------------------------
(* Properties of the rooms list (SpecRooms).                               *)

\* the network call of fetch x ended before the one of fetch y
RoomsNetBefore(x, y) ==
    \E i, j \in 1..Len(rooms_netOrder) :
        i < j /\ rooms_netOrder[i] = x /\ rooms_netOrder[j] = y

\* the thread of fetch g has ended and every callback it scheduled has run
RoomsFetchDone(g) ==
    /\ rooms_worker[g] = "done"
    /\ \A i \in 1..Len(clock) : clock[i].id # g

\* C1: for rooms fetches A and B, B started after A (A's token is the smaller
\* one): if A's network call ends after B's, A's data is never assigned to
\* rooms, and once both fetches have completed, B returned data and no fetch
\* newer than B was started, rooms holds exactly B's data.
C1_GenerationGuard ==
    \A a, b \in Tokens :
        (a < b /\ RoomsNetBefore(b, a)) =>
            /\ a \notin rooms_assigned
            /\ (/\ RoomsFetchDone(a) /\ RoomsFetchDone(b)
                /\ rooms_result[b] = "ok" /\ b = gen_rooms) => rooms = b

\* Both fetches returned data, A's call ended last, both have completed.
C1_Witness ==
    \E a, b \in Tokens :
        /\ a < b /\ RoomsNetBefore(b, a)
        /\ rooms_result[a] = "ok" /\ rooms_result[b] = "ok"
        /\ RoomsFetchDone(a) /\ RoomsFetchDone(b)
        /\ rooms = b

----------------------------------------------------------------------------
(* Properties of the room's lights list (SpecLights).                      *)

\* the thread of lights fetch k has ended and every callback it scheduled
\* has run
LightsFetchDone(k) ==
    /\ lights_worker[k].pc = "done"
    /\ \A i \in 1..Len(clock) : clock[i].id # k

\* C2: in RoomLightsScreen a fetch's result is applied to lights only if no
\* newer lights fetch was started since it began: an earlier-started fetch
\* never overwrites the result of a later-started one, and once all fetches
\* have completed (the newest one with data) the list shown is the one of the
\* currently selected room_id.
C2_LightsGuard ==
    /\ ~lights_regressed
    /\ (/\ n_lights > 0
        /\ \A k \in 1..n_lights : LightsFetchDone(k)
        /\ lights_result[n_lights] = "ok") => lights.room = room_id

----------------------------------------------------------------------------
(* Properties of a tile's commands (SpecTile).                             *)

\* the commands of the tile whose network call is in flight
CmdsInFlight == {i \in CmdIds : cmds[i].pc = "net"}

\* C3: for a tile, at most one command network call (toggle, brightness or
\* colour) is in flight at any time; a command requested while another one is
\* outstanding dispatches no network call.
C3_SingleFlight == Cardinality(CmdsInFlight) <= 1

\* C6 as stated: a slider gesture (on_slider_change events ended by one
\* on_slider_release inside the slider) has dispatched exactly one brightness
\* request, whatever the number and timing of its change events.
C6_OneRequestPerGesture == gesture = "released" => g_reqs = 1

\* C6: a slider gesture ended by a release inside the slider has dispatched
\* one brightness request at the release plus one for every 0.35 s quiet
\* period that elapsed after a change event of the gesture (exactly one when
\* no commit timer of the gesture elapsed), and after the release no commit
\* timer is pending.
C6_GestureRequests ==
    gesture = "released" =>
        /\ g_reqs = 1 + g_fires
        /\ timers = {}

\* A gesture with a pause: the quiet timer elapsed once, then the release.
C6_Witness ==
    /\ gesture = "released"
    /\ g_fires = 1
    /\ g_reqs = 2
    /\ timers = {}

----------------------------------------------------------------------------
(* Properties of the fetches of the three collections.                     *)

\* the number of fetch threads of a collection inside their network call
RoomsInFlight == Cardinality({g \in Tokens : rooms_worker[g] = "net"})
LightsInFlight == Cardinality({k \in LightFetches : lights_worker[k].pc = "net"})
GridInFlight == Cardinality({g \in GridTokens : grid_worker[g].pc = "net"})

\* C4: for each collection (the rooms list of MainScreen, the lights list of
\* RoomLightsScreen, the item grid of src/main.py) at most one fetch network
\* call is in flight at any time.
C4_OneFetchInFlight ==
    /\ RoomsInFlight <= 1
    /\ LightsInFlight <= 1
    /\ GridInFlight <= 1

\* no thread of the grid is running and no callback is waiting
GridQuiet ==
    /\ clock = <<>>
    /\ \A g \in GridTokens : grid_worker[g].pc \in {"none", "done"}

\* the thread of a fetch newer than g was started
GridNewerStarted(g) ==
    \E h \in GridTokens : h > g /\ grid_worker[h].pc # "none"

\* C5: in src/main.py a refresh request (fetch or switch_view) that is ignored
\* because a fetch is in flight does not supersede that fetch: a result is
\* dropped only when a newer fetch was started, and when everything has
\* completed, the newest started fetch having returned data, the grid shows
\* that data.
C5_IgnoredDoesNotSupersede ==
    /\ \A g \in grid_dropped : GridNewerStarted(g)
    /\ \A g \in GridTokens :
           (/\ GridQuiet
            /\ grid_result[g] = "ok"
            /\ ~GridNewerStarted(g)) => item_grid.gen = g

----------------------------------------------------------------------------
(* Properties of the bridge client's commands (SpecClient).                *)

Abs(x) == IF x >= 0 THEN x ELSE 0 - x

\* b is the integer nearest to n / d, the even one of the two when n / d lies
\* exactly between two integers (Python's round).
NearestEven(b, n, d) ==
    /\ 2 * Abs(b * d - n) <= d
    /\ 2 * Abs(b * d - n) = d => b % 2 = 0

Clamp(lo, hi, v) == IF v < lo THEN lo ELSE IF v > hi THEN hi ELSE v

Returned(op) == client_pc = "done" /\ call.op = op

C8_BrightnessRoundTrip ==
    (Returned("set_brightness") /\ call.percent \in 0..100) =>
        LET b == requests[1].body.bri
        IN  /\ b \in 1..254
            /\ Abs(ToPercent(b) - call.percent) <= 1

\* 0 % is sent as bri = 1, which reads back as 0 %.
C8_Witness ==
    /\ Returned("set_brightness")
    /\ call.percent = 0
    /\ requests[1].body.bri = 1
    /\ ToPercent(requests[1].body.bri) = 0

\* C9: for every integer hue in degrees d, negative or >= 360 included, the
\* hue sent by set_color_hs and set_room_color_hs is the one sent for d mod 360
\* and lies in 0..65535; 360 and 0 both send 0, and -10 sends what 350 sends.
C9_HueWrap ==
    Returned("set_color_hs") =>
        LET h == requests[1].body.hue
        IN  /\ h \in 0..65535
            /\ h = ToDeviceHue(call.deg % 360)
            /\ call.deg \in {0, 360} => h = 0
            /\ call.deg \in {-10, 350} => h = 63715

\* -10 degrees is sent as 63715, the value of 350 degrees.
C9_Witness ==
    /\ Returned("set_color_hs")
    /\ call.deg = -10
    /\ requests[1].body.hue = 63715

\* C10: for every saturation percent s, below 0 and above 100 included,
\* set_color_hs and set_room_color_hs send sat = round(clamp(s, 0, 100) * 254 /
\* 100), which lies in 0..254, in a request that carries on = true.
C10_Saturation ==
    Returned("set_color_hs") =>
        LET body == requests[1].body
        IN  /\ Len(requests) = 1
            /\ body.sat \in 0..254
            /\ NearestEven(body.sat, Clamp(0, 100, call.sat) * 254, 100)
            /\ "on" \in body.keys /\ body.on = TRUE

\* A saturation above 100 % is sent as 254.
C10_Witness ==
    /\ Returned("set_color_hs")
    /\ call.sat > 100
    /\ requests[1].body.sat = 254

----------------------------------------------------------------------------
(* Properties of the stored configuration (SpecConfig).                    *)

\* the operation (not load_config itself) has ended
OperationDone == cfg_op.pc = "done" /\ cfg_op.name # "load_config"

\* load_config, called by itself, has ended
LoadConfigDone == cfg_op.pc = "done" /\ cfg_op.name = "load_config"

\* there is no config file and neither environment variable is set
NotConfigured == cfg_file = FileAbsent /\ env = EmptyConfig

\* C11: every operation of the bridge client invoked while nothing is
\* configured (no config file, no environment variables) fails with a
\* config-missing error before any request is issued.
C11_ConfigMissing ==
    (OperationDone /\ NotConfigured) =>
        /\ cfg_op.outcome = "raised"
        /\ cfg_op.error = "Hue config missing"
        /\ cfg_requests = <<>>

\* C12: load_config never raises: with no file and no environment variables
\* it returns bridge_ip = "" and username = "", and with an unreadable or
\* corrupt file it returns the environment values, or "" for those not set.
C12_LoadConfigNeverRaises ==
    LoadConfigDone =>
        /\ cfg_op.outcome = "returned"
        /\ NotConfigured => cfg_op.cfg = EmptyConfig
        /\ cfg_file = FileCorrupt => cfg_op.cfg = env

\* the configuration save_config is writing at the moment
BeingWritten == IF saver.pc = "writing" THEN {saver.new} ELSE {}

\* C13: load_config of src/myapp/hue.py, running while save_config may run,
\* with a complete configuration stored when it began, returns a complete
\* configuration that was stored or the one being written, never an empty
\* or environment-fallback value read in the middle of the write.
C13_LoadSeesOldOrNew ==
    (LoadConfigDone /\ cfg_op.impl = "myapp" /\ cfg_op.had) =>
        /\ cfg_op.outcome = "returned"
        /\ cfg_op.cfg \in cfg_stored \cup BeingWritten

----------------------------------------------------------------------------
(* Properties of discover_bridges (SpecDiscover).                          *)

DiscoverDone == disc_pc = "done"

\* the addresses returned by the strategies that ran and did not raise
FoundByStrategies ==
    UNION {Range(strat[s].found) :
               s \in {t \in Range(Strategies) : strat[t].state = "returned"}}

\* strategy s returned exactly the addresses S
Gave(s, S) == strat[s].state = "returned" /\ Range(strat[s].found) = S

\* C14: discover_bridges returns exactly the union of the addresses the
\* strategies that ran returned, without duplicates and in ascending order
\* (of the strings): results {10.0.0.5}, {} and {10.0.0.5, 10.0.0.9} give
\* exactly [10.0.0.5, 10.0.0.9], and all-empty results give the empty list.
C14_DiscoveryUnion ==
    DiscoverDone =>
        /\ Range(disc_result) = FoundByStrategies
        /\ \A i, j \in 1..Len(disc_result) :
               i < j => StrLess(disc_result[i], disc_result[j])
        /\ (/\ Gave("ssdp", {<<5>>}) /\ Gave("mdns", {})
            /\ Gave("sweep", {<<5>>, <<9>>})
            /\ strat["meethue"].state = "skipped")
               => disc_result = << <<5>>, <<9>> >>
        /\ FoundByStrategies = {} => disc_result = <<>>

\* The three results of the example, the cloud lookup skipped.
C14_Witness ==
    /\ DiscoverDone
    /\ Gave("ssdp", {<<5>>}) /\ Gave("mdns", {}) /\ Gave("sweep", {<<5>>, <<9>>})
    /\ strat["meethue"].state = "skipped"
    /\ disc_result = << <<5>>, <<9>> >>

\* the strategies that raised
Raisers == {s \in Range(Strategies) : strat[s].state = "raised"}

\* C15: whichever of the four strategies raise, discover_bridges raises
\* nothing: every strategy after a failed one still runs, the call returns,
\* and the list holds every address a strategy that did not raise returned;
\* if all four raise the list is empty.
C15_FailuresSuppressed ==
    /\ \A n \in 1..Len(Strategies) :
           strat[Strategies[n]].state = "raised" =>
               disc_pc \in {Strategies[m] : m \in (n + 1)..Len(Strategies)}
                               \cup {"return", "done"}
    /\ DiscoverDone =>
           /\ \A s \in Range(Strategies) \ Raisers :
                  Range(strat[s].found) \subseteq Range(disc_result)
           /\ Raisers = Range(Strategies) => disc_result = <<>>

\* A strategy returned an address, a later one raised, the call returned.
C15_Witness ==
    /\ DiscoverDone
    /\ strat["meethue"].state = "raised"
    /\ Gave("ssdp", {<<9>>})
    /\ strat["mdns"].state = "raised"
    /\ strat["sweep"].state = "raised"
    /\ disc_result = << <<9>> >>

\* C16: the four strategies run in parallel: while one strategy runs, no
\* other strategy is still waiting for it to finish or time out.
C16_StrategiesParallel ==
    \A s, t \in Range(Strategies) :
        strat[s].state = "running" => strat[t].state # "waiting"

----------------------------------------------------------------------------
(* Properties of the subnet sweep (SpecSweep).                             *)

\* every host of every scanned prefix was probed exactly once
AllProbedOnce ==
    \A p \in 1..sw_prefixes : \A h \in Hosts : sw_probes[p][h] = 1

\* C17: during the subnet sweep at most max_workers host probes are in
\* flight at any time, no host is probed twice, the sweep terminates, and
\* when it has, every host of each scanned prefix was probed exactly once.
C17_SweepBounded ==
    /\ [](Cardinality(InFlight) <= MaxWorkers)
    /\ [](\A p \in 1..FallbackPrefixes : \A h \in Hosts : sw_probes[p][h] <= 1)
    /\ [](sw_pc = "done" => AllProbedOnce)
    /\ <>(sw_pc = "done")

\* The pool is full while candidates still wait in its queue.
C17_Witness ==
    /\ Cardinality(InFlight) = MaxWorkers
    /\ Queued # {}
    /\ sw_prefixes = FallbackPrefixes

----------------------------------------------------------------------------
(* Properties of the handling of the bridge's answers (SpecParse).         *)

\* the answer of the last call carries the error e: it is a list whose first
\* error entry is e, or the single object {"error": e}
CarriesError(e) ==
    \/ p_call.resp = DictError(e)
    \/ /\ p_call.resp.shape = "list"
       /\ \E i \in 1..Len(p_call.resp.items) :
              /\ p_call.resp.items[i] = ErrorItem(e)
              /\ \A j \in 1..(i - 1) : p_call.resp.items[j].key # "error"

\* the answer of the last call has no error entry
CarriesNoError ==
    \/ p_call.resp.shape = "dict"
    \/ /\ p_call.resp.shape = "list"
       /\ \A i \in 1..Len(p_call.resp.items) : p_call.resp.items[i].key # "error"

\* C18: for the same error content, _raise_if_error raises the same error
\* (same class, same message) whether the answer is a list with an
\* {error: ...} entry or a single {error: ...} object; an answer without an
\* error entry raises nothing and is returned unchanged.
C18_SameErrorBothShapes ==
    p_call.fn = "_raise_if_error" =>
        /\ \A e \in ErrorContents :
               CarriesError(e) =>
                   /\ p_out.raised
                   /\ p_out.kind = "RuntimeError"
                   /\ p_out.message = HueErrorMessage(e)
        /\ CarriesNoError => (~p_out.raised /\ p_out.resp = p_call.resp)

\* create_user was called and the bridge answered with the link-button error
GotLinkButtonError ==
    /\ p_call.fn = "create_user"
    /\ p_call.net = "ok"
    /\ p_call.resp = ListResp(<<ErrorItem(LinkButtonError)>>)

\* the classes of the exceptions create_user raises for its other failures:
\* no connection, or an answer that is neither a username nor an error
OtherFailureKinds ==
    {CreateUserResult("fail", r).kind : r \in PairingAnswers}
    \cup {CreateUserResult("ok", r).kind :
              r \in {ListResp(<<>>), ListResp(<<SuccessItem("")>>),
                     ListResp(<<OtherItem>>), DictData(<<>>)}}

\* C19: when the bridge answers the pairing request with the
\* link-button-not-pressed error, create_user fails with an error of a kind
\* of its own, which the caller can tell from the other failures (network
\* failure, malformed answer); a create_user call made after the button was
\* pressed returns the new username.
C19_PairingRequired ==
    /\ GotLinkButtonError =>
           (p_out.raised /\ p_out.kind \notin OtherFailureKinds)
    /\ (/\ p_call.fn = "create_user" /\ p_call.net = "ok"
        /\ p_call.resp = ListResp(<<SuccessItem("newuser")>>))
           => (~p_out.raised /\ p_out.username = "newuser")

\* list_rooms_detailed returned a result
ListRoomsReturned == p_call.fn = "list_rooms_detailed" /\ ~p_out.raised

\* C20: list_rooms_detailed returns an entry for a group id if and only if
\* that group's type is "Room"; groups of another type, or of none, never
\* appear in the result.
C20_OnlyRooms ==
    ListRoomsReturned =>
        \A g \in ItemIds :
            g \in DOMAIN p_out.rooms <=>
                (g \in DOMAIN p_call.resp.groups /\ p_call.resp.groups[g] = "Room")

\* The bridge has a room and a zone; only the room is returned.
C20_Witness ==
    /\ ListRoomsReturned
    /\ DOMAIN p_call.resp.groups = {1, 2}
    /\ p_call.resp.groups[1] = "Zone"
    /\ p_call.resp.groups[2] = "Room"
    /\ DOMAIN p_out.rooms = {2}

----------------------------------------------------------------------------
(* Properties of the listings (SpecList).                                  *)

\* the call reported the on-state of a group
ReportedRoomOn ==
    ls_out.done /\ ls_call.fn \in {"list_rooms_detailed", "room_is_on"}

\* the call made a listing entry, with on and bri
ListedEntry == ls_out.done /\ ls_call.fn \in Listings \ {"room_is_on"}

\* C21: for every group record the reported on-state is the actual aggregate
\* state (state.any_on when present, else state.all_on when present) and
\* falls back to the commanded action.on only when neither is present; when
\* the actual state and action.on disagree the actual state wins, and
\* list_rooms_detailed and room_is_on report the same on-state for the same
\* record.
C21_ActualStateWins ==
    ReportedRoomOn =>
        LET info == ls_call.info
        IN  /\ info.any_on # "absent" => ls_out.on = (info.any_on = "true")
            /\ (info.any_on = "absent" /\ info.all_on # "absent") =>
                   ls_out.on = (info.all_on = "true")
            /\ (info.any_on = "absent" /\ info.all_on = "absent") =>
                   ls_out.on = (info.on = "true")
            /\ RoomOn("myapp", info) = RoomIsOnResult(info)

\* C22: when the bri field of a light or room is absent or non-numeric, the
\* listed brightness is 100 if the item is on and 0 if it is off; when bri is
\* a number b in 0..254 the listed brightness is round(b * 100/254) and lies
\* in 0..100.
C22_ListedBrightness ==
    ListedEntry =>
        LET bri == ls_call.info.bri
        IN  /\ bri.kind # "num" => ls_out.bri = (IF ls_out.on THEN 100 ELSE 0)
            /\ bri.kind = "num" =>
                   /\ NearestEven(ls_out.bri, bri.val * 100, 254)
                   /\ ls_out.bri \in 0..100

----------------------------------------------------------------------------
(* Properties of the failure paths (SpecTile, SpecRooms, SpecGrid).        *)

\* the commands of the tile whose network call raised
FailedCmds == {i \in CmdIds : cmds[i].result \notin {"none", "ok"}}
\* the rooms fetches whose network call raised
FailedFetches == {g \in Tokens : rooms_result[g] \in Errors}
\* the callbacks of kind cb that task id has waiting on the event loop
Waiting(cb, id) == {k \in 1..Len(clock) : clock[k] = Callback(cb, id)}

\* C23: when the network call of a fetch or command task fails, the failure
\* is caught inside the task, exactly one user-visible message is scheduled
\* onto the event loop (and shown by it), the application keeps running, and
\* no further network attempt is made for that request.
C23_FailureSurfaced ==
    /\ ~stopped
    /\ \A i \in FailedCmds :
           /\ cmds[i].pc = "done"
           /\ Cardinality(Waiting("tile_error", i)) = 1
    /\ \A g \in FailedFetches :
           /\ rooms_worker[g] # "net"
           /\ Cardinality(Waiting("rooms_error", g)) <= 1

----------------------------------------------------------------------------
(* Properties of the settings screen (SpecSettings).                       *)

\* the thread of discover() has ended and every callback it scheduled has run
DiscoverFinished ==
    /\ sd_worker.pc = "done"
    /\ \A k \in 1..Len(clock) :
           clock[k].cb \notin {"discover_assign", "discover_error", "discover_enable"}

\* the event loop runs assign() of a discovery that found no address
AssignOfNothing ==
    /\ NextCallback("discover_assign")
    /\ clock' = Tail(clock)
    /\ sd_worker.ips = <<>>

\* C24: when discovery yields no address (after its internal second
\* attempt), SettingsScreen.discover shows "No Hue bridges found" rather than
\* an error message, leaves bridge_ip unchanged, and re-enables the discover
\* button.
C24_NotFoundIsNoError ==
    /\ [][AssignOfNothing =>
              /\ s_lbl' = "No Hue bridges found"
              /\ s_bridge_ip' = s_bridge_ip]_vars
    /\ [](DiscoverFinished => ~btn_disabled)

\* Both attempts found nothing: the text is shown, the address loaded from the
\* configuration is still there, the button is enabled again.
C24_Witness ==
    /\ DiscoverFinished
    /\ sd_worker.ips = <<>>
    /\ s_lbl = "No Hue bridges found"
    /\ s_bridge_ip = "10.0.0.5"
    /\ ~btn_disabled

\* C25: no background worker thread writes UI-owned state directly: every
\* change of a screen's or tile's properties (rooms, lights, loading flags,
\* is_on, bridge_ip, username, status text) caused by a worker happens inside
\* a callback scheduled onto the event loop with Clock.schedule_once.
C25_NoDirectWrites == worker_wrote = {}

----------------------------------------------------------------------------
(* Progress of the fetches (SpecGridLive).                                 *)

\* C26: assuming every network call returns or times out and scheduled
\* callbacks run, the in-flight flag set by a fetch (loading_lights in
\* src/main.py, loading_rooms and loading in src/myapp/app.py) is eventually
\* cleared after that fetch finishes, on success and on failure alike, so
\* fetch suppression never blocks later refreshes forever.
C26_FlagCleared ==
    /\ loading_lights ~> ~loading_lights
    /\ loading_rooms ~> ~loading_rooms
    /\ loading ~> ~loading

----------------------------------------------------------------------------
(* Properties of the tile's slider (SpecTile, SpecSliderLive).             *)

\* C27: a brightness commit is never dispatched by a timer that was
\* cancelled: every on_slider_change cancels the tile's pending commit timer
\* before starting a new 0.35 s one, and on_slider_release inside the slider
\* cancels it before committing, so at most one commit timer is pending per
\* tile, and it is the timer of the last change: it commits only when no
\* further change arrived during its quiet period.
C27_OnePendingCommit ==
    /\ Cardinality(timers) <= 1
    /\ timers \subseteq {bri_job}
    /\ bri_job = n_timers
    /\ gesture = "released" => timers = {}

\* Two changes: the timer of the first was cancelled, the second is pending.
C27_Witness ==
    /\ n_timers = 2
    /\ timers = {2}
    /\ gesture = "drag"

\* a step that dispatches a brightness command carrying the slider's value
DispatchesBrightness ==
    /\ n_cmds' = n_cmds + 1
    /\ cmds'[n_cmds'].pc = "net"
    /\ cmds'[n_cmds'].op = "brightness"
    /\ cmds'[n_cmds'].percent = brightness
    /\ cmds'[n_cmds'].body = BrightnessBody(brightness)

\* C28: assuming the clock advances, after the last on_slider_change of a
\* tile a brightness command carrying that last slider value is eventually
\* dispatched (by the quiet timer or by the release), including when the
\* release happens outside the slider's bounds: the commit timer of a change
\* stops being pending, and when it does so without a later change, the
\* step dispatches the command.
C28_LastValueCommitted ==
    /\ [][\A k \in 1..MaxChanges :
              (k \in timers /\ k \notin timers' /\ n_timers' = n_timers) =>
                  DispatchesBrightness]_vars
    /\ \A k \in 1..MaxChanges : (k \in timers) ~> (k \notin timers \/ stopped)

\* The slider was released outside its bounds, and the value of the one
\* change is on its way to the bridge.
C28_Witness ==
    /\ gesture = "idle"
    /\ n_timers = 1
    /\ timers = {}
    /\ n_cmds = 1
    /\ cmds[1].pc = "net"
    /\ cmds[1].op = "brightness"
    /\ cmds[1].percent = brightness

\* the event loop runs the success callback of a brightness commit
BrightnessSucceeds ==
    /\ ~stopped
    /\ NextCallback("tile_success")
    /\ clock' = Tail(clock)
    /\ cmds[Head(clock).id].op = "brightness"

\* C29: after a successful brightness commit the tile's is_on equals the on
\* value that the command sent to the bridge, for every committed percent
\* including 0 (where the command sends on=true with bri=1).
C29_IsOnAsSent ==
    [][BrightnessSucceeds => is_on' = cmds[Head(clock).id].body.on]_vars

\* a step in which a worker thread of the rooms list starts with token g
RoomsFetchStarts(g) == rooms_worker[g] # "net" /\ rooms_worker'[g] = "net"

\* a step in which a worker thread of the grid starts with token g
GridFetchStarts(g) == grid_worker[g].pc # "net" /\ grid_worker'[g].pc = "net"

\* C30: neither generation counter ever decreases; the tokens handed to
\* fetches never exceed their counter; and a fetch that starts captures the
\* counter's new value, which is above the old value and so above every token
\* issued before, and which no earlier fetch holds.
C30_TokensIncrease ==
    [][ /\ gen_rooms' >= gen_rooms
        /\ gen' >= gen
        /\ \A g \in Tokens : rooms_worker[g] # "none" => g <= gen_rooms
        /\ \A g \in GridTokens : grid_worker[g].pc # "none" => g <= gen
        /\ \A g \in Tokens :
               RoomsFetchStarts(g) =>
                   g = gen_rooms' /\ g > gen_rooms /\ rooms_worker[g] = "none"
        /\ \A g \in GridTokens :
               GridFetchStarts(g) =>
                   g = gen' /\ g > gen /\ grid_worker[g].pc = "none" ]_vars

\* a second fetch of one collection has started, its token above the first's
C30_Witness ==
    \/ rooms_worker[1] # "none" /\ rooms_worker[2] # "none"
    \/ \E g \in GridTokens, h \in GridTokens :
           g < h /\ grid_worker[g].pc # "none" /\ grid_worker[h].pc # "none"

\* a step in which the event loop runs a callback of a rooms fetch whose
\* token is no longer the current one
StaleRoomsCallback ==
    /\ clock # <<>>
    /\ clock' = Tail(clock)
    /\ Head(clock).cb \in {"rooms_assign", "rooms_error"}
    /\ Head(clock).id # gen_rooms

\* C31: when the completion of a rooms fetch whose token is no longer current
\* is handled, neither the rooms shown nor the status text changes: its data
\* is not assigned and its failure message is not shown.
C31_StaleCompletionDropped ==
    [][StaleRoomsCallback => rooms' = rooms /\ status_lbl' = status_lbl]_vars

\* the ids of the member list of the room, and of the full light set
MemberKeys == {rl_call.group.ids[i] : i \in DOMAIN rl_call.group.ids}
KnownKeys == DOMAIN rl_call.all_lights

\* C32: when list_lights_detailed_for_room returns, its result holds exactly
\* the lights whose id is in the room's member list and in the full light
\* set, each with the on-state of its record; when the room has no members (an
\* empty or absent list) the result is empty and only the first request was
\* issued, and otherwise both requests were.
C32_RoomLightsFiltered ==
    rl_out.pc = "returned" =>
        /\ DOMAIN rl_out.out =
               {i \in LightIds : ToStr(i) \in MemberKeys \cap KnownKeys}
        /\ \A i \in DOMAIN rl_out.out :
               /\ rl_out.out[i].done
               /\ rl_out.out[i].on = (rl_call.all_lights[ToStr(i)].on = "true")
        /\ IF MemberKeys = {}
           THEN rl_out.out = NoLights /\ rl_out.requests = 1
           ELSE rl_out.requests = 2

\* the call returned some lights of a room that has a member the bridge does
\* not list, while the bridge lists a light that is not a member
C32_Witness ==
    /\ rl_out.pc = "returned"
    /\ rl_out.out # NoLights
    /\ MemberKeys \ KnownKeys # {}
    /\ KnownKeys \ MemberKeys # {}

\* a room without members: the call returned after one request
RoomWithoutMembersReturned ==
    /\ rl_out.pc = "returned"
    /\ MemberKeys = {}
    /\ KnownKeys # {}

\* every command of the tile and every callback it scheduled has completed,
\* and no commit timer is pending
TileQuiet ==
    /\ \A i \in CmdIds : cmds[i].pc = "none"
    /\ \A k \in 1..Len(clock) : clock[k].cb # "tile_success"
    /\ timers = {}

\* C33: when all commands of a tile succeeded, once every command and every
\* callback it scheduled has completed, the tile's is_on equals the on-state
\* the bridge holds from the last command it received.
C33_TileMatchesBridge == TileQuiet => is_on = bridge_on

\* a step in which toggle() starts command i
TogglePressed(i) ==
    /\ n_cmds' = i
    /\ n_cmds = i - 1
    /\ cmds'[i].op = "toggle"

\* a step in which the event loop runs the success callback of a command
SuccessCallbackRuns ==
    /\ clock # <<>>
    /\ Head(clock).cb = "tile_success"
    /\ clock' = Tail(clock)

\* the toggles whose callback has not run
PendingToggles == {i \in CmdIds : cmds[i].op = "toggle" /\ cmds[i].pc # "none"}

\* no callback of a command of the tile has run
NoCallbackRan == \A i \in 1..n_cmds : cmds[i].pc # "none"

PairingFails(i) ==
    /\ sv_worker[i].create_user = "called"
    /\ sv_worker'[i].create_user = "raised"

\* a step in which save() is called without a bridge address
SaveWithoutAddress ==
    /\ n_saves' = n_saves + 1
    /\ Strip(s_bridge_ip) = ""

\* a step in which the event loop runs the error callback of save
RunsSaveError ==
    /\ clock # <<>>
    /\ Head(clock).cb = "save_error"
    /\ clock' = Tail(clock)

\* C36: when create_user fails in SettingsScreen.save, save_config is not
\* called for that save, its thread ends having scheduled the error text,
\* which shows "Save error", and no go_back is scheduled; the screen goes back
\* to "main" only after a save_config that returned; save() with an empty
\* bridge address starts no thread and schedules nothing; and create_user is
\* called only by a save whose username is empty.
C36_FailedPairingStoresNothing ==
    [][ /\ \A i \in SaveIds :
               /\ PairingFails(i) =>
                      /\ sv_worker'[i].pc = "done"
                      /\ clock' = Append(clock, [cb |-> "save_error", id |-> i])
                      /\ back_timers' = back_timers
               /\ sv_worker'[i].create_user = "raised" =>
                      sv_worker'[i].save_config = "no"
               /\ sv_worker'[i].create_user # "no" => sv_worker'[i].user = ""
               /\ sv_worker'[i].pc # "none" => sv_worker'[i].ip # ""
        /\ RunsSaveError => s_lbl' = "Save error"
        /\ (current = "settings" /\ current' = "main") =>
               \E i \in SaveIds : sv_worker[i].save_config = "returned"
        /\ SaveWithoutAddress =>
               /\ sv_worker' = sv_worker
               /\ clock' = clock
               /\ back_timers' = back_timers ]_vars

\* pairing failed and the "Save error" text is on the screen, which is still
\* the settings screen
C36_Witness ==
    /\ \E i \in SaveIds : sv_worker[i].create_user = "raised"
    /\ s_lbl = "Save error"
    /\ current = "settings"

\* C35: in MainScreen of src/myapp/app.py loading_rooms is true in every
\* state in which the network call of a rooms fetch is in flight.
C35_LoadingWhileInFlight == RoomsInFlight > 0 => loading_rooms

\* a step in which the call of command i raises
CommandFails(i) ==
    /\ cmds[i].pc = "net"
    /\ cmds'[i].pc = "done"
    /\ cmds'[i].result # "ok"

\* a step in which the event loop runs the error callback of a command
ErrorCallbackRuns ==
    /\ clock # <<>>
    /\ Head(clock).cb = "tile_error"
    /\ clock' = Tail(clock)

\* C37: a command that fails leaves is_on as it is when its call raises and
\* when its error callback runs, what it schedules is the error callback
\* alone, and every success callback (the only place _set_on is called from)
\* belongs to a command whose call returned without error.
C37_FailureKeepsIsOn ==
    [][ /\ \A i \in CmdIds :
               CommandFails(i) =>
                   /\ is_on' = is_on
                   /\ clock' = Append(clock, [cb |-> "tile_error", id |-> i])
        /\ ErrorCallbackRuns => is_on' = is_on
        /\ SuccessCallbackRuns => cmds[Head(clock).id].result = "ok" ]_vars

\* a toggle or colour command failed and its error callback has run; no
\* command or callback is left
C37_Witness ==
    /\ TileQuiet
    /\ tile_popups > 0
    /\ \A k \in 1..Len(clock) : clock[k].cb # "tile_error"

====
